---------------------------- MODULE Spec2Model ----------------------------
(***************************************************************************)
(* A model of the colour mixer: the /mix request handler of app.py with    *)
(* its interpolator registry, the Kubelka-Munk mixer of kubelka.py, the    *)
(* HCT mixer of hct_mixer.py and the tonal ramp of hct_tone.py.            *)
(*                                                                         *)
(* Numbers.  The program computes in floating point; the model computes in *)
(* exact integer and rational arithmetic.  A channel value handed to       *)
(* rgb01_to_hex is a fraction <<num, den>> in units of 1/255.              *)
(***************************************************************************)
EXTENDS Integers, Naturals, Sequences, FiniteSets, TLC

(***************************************************************************)
(* Bounds of the model.                                                    *)
(***************************************************************************)
MaxNArg == 4        \* the n arguments tried are the integers -1..MaxNArg (and one above the cap)

(***************************************************************************)
(* Strings are sequences of one-character strings, so that lstrip, len and *)
(* slicing are computed as Python computes them.                           *)
(***************************************************************************)
HexDigits == <<"0","1","2","3","4","5","6","7","8","9","a","b","c","d","e","f">>

IsHexDigit(c) == \E k \in 1..16 : HexDigits[k] = c

DigitVal(c) == (CHOOSE k \in 1..16 : HexDigits[k] = c) - 1

\* str.lstrip("#")
RECURSIVE LStripHash(_)
LStripHash(s) ==
    IF s # <<>> /\ Head(s) = "#" THEN LStripHash(Tail(s)) ELSE s

\* int(two_chars, 16): Python's int accepts a sign before the digits and
\* white space around them, and raises ValueError otherwise.
\* The result is <<TRUE, value>> or <<FALSE, 0>> (ValueError).
IntBase16(p) ==
    CASE IsHexDigit(p[1]) /\ IsHexDigit(p[2]) -> <<TRUE, 16 * DigitVal(p[1]) + DigitVal(p[2])>>
      [] p[1] = "+" /\ IsHexDigit(p[2])       -> <<TRUE, DigitVal(p[2])>>
      [] p[1] = "-" /\ IsHexDigit(p[2])       -> <<TRUE, 0 - DigitVal(p[2])>>
      [] p[1] = " " /\ IsHexDigit(p[2])       -> <<TRUE, DigitVal(p[2])>>
      [] IsHexDigit(p[1]) /\ p[2] = " "       -> <<TRUE, DigitVal(p[1])>>
      [] OTHER                                -> <<FALSE, 0>>

\* hex_to_rgb01: [ok |-> FALSE] is the ValueError, otherwise the three
\* channels in units of 1/255.
hex_to_rgb01(hex_str) ==
    LET s == LStripHash(hex_str) IN
    IF Len(s) # 6 THEN [ok |-> FALSE, rgb |-> <<>>]
    ELSE LET r == IntBase16(SubSeq(s, 1, 2))
             g == IntBase16(SubSeq(s, 3, 4))
             b == IntBase16(SubSeq(s, 5, 6))
         IN IF r[1] /\ g[1] /\ b[1]
            THEN [ok |-> TRUE, rgb |-> <<r[2], g[2], b[2]>>]
            ELSE [ok |-> FALSE, rgb |-> <<>>]


(***************************************************************************)
(* Rounding to 8 bits.  A channel is a fraction <<num, den>> with den > 0, *)
(* in units of 1/255.                                                      *)
(***************************************************************************)
Frac(num, den) == <<num, den>>

\* floor(num/den) for den > 0 and any sign of num
FloorDiv(num, den) == num \div den

\* np.round: round to nearest, an exact half goes to the even neighbour
RoundHalfEven(num, den) ==
    LET q == FloorDiv(num, den)
        r == num - q * den
    IN  IF 2 * r < den THEN q
        ELSE IF 2 * r > den THEN q + 1
        ELSE IF q % 2 = 0 THEN q ELSE q + 1

\* np.clip(x, 0.0, 1.0) on a channel in units of 1/255
Clip01(c) ==
    IF c[1] < 0 THEN Frac(0, 1)
    ELSE IF c[1] > 255 * c[2] THEN Frac(255, 1)
    ELSE c

\* rgb01_to_hex: the three bytes of the "#rrggbb" string
rgb01_to_hex(rgb) ==
    [k \in 1..3 |-> LET c == Clip01(rgb[k]) IN RoundHalfEven(c[1], c[2])]

(***************************************************************************)
(* Interpolators.  t = i / (n - 1) is kept as the pair (i, d), d = n - 1.  *)
(* An interpolator yields the set of its possible outcomes: a colour       *)
(* [ok |-> TRUE, rgb |-> ...] or an exception [ok |-> FALSE].              *)
(***************************************************************************)
Ok(rgb) == [ok |-> TRUE, rgb |-> rgb]

Raised == [ok |-> FALSE, rgb |-> <<>>]

\* a lerp whose first weight is 1 + t instead of 1 - t
lerp_wrong_weight(a, b, i, d) == Frac((d + i) * a + i * b, d)

\* lerp(a, b, t) = (1 - t) * a + t * b on one channel given in units of 1/255
lerp(a, b, i, d) == Frac((d - i) * a + i * b, d)

srgb_interp(a, b, i, d) == {Ok([k \in 1..3 |-> lerp(a[k], b[k], i, d)])}

(***************************************************************************)
(* Kubelka-Munk mixer (kubelka.py).                                        *)
(*                                                                         *)
(* Linear light and reflectance are counted in units of 1/RS.  The basis   *)
(* spectra (spectra38.py) and the colour matching functions (the colour    *)
(* library) are not part of the sources: they are modelled as the ideal    *)
(* basis the design describes, one band per primary, for which the         *)
(* reconstruction of a colour from its own spectrum is exact.              *)
(* A K/S value is a fraction <<p, q>> meaning p / (2 * RS * q).            *)
(* The result of the mixer is rounded to the output grid of OutStep units  *)
(* (the counterpart of the 8-bit rounding: the clip floor of one unit is   *)
(* well below half an output step, as 1e-6 is well below 1/510).           *)
(***************************************************************************)
Min2(x, y) == IF x <= y THEN x ELSE y

Max2(x, y) == IF x >= y THEN x ELSE y

\* _uncompand on a byte v (the channel v/255), in units of 1/RS
UncompandTab ==
    <<0, 0, 0, 0, 0, 0, 0, 0, 0, 0, 0, 0, 0, 0, 0, 0, 0, 0, 0, 0, 0, 0, 0, 0, 0, 0, 0, 0, 0, 0, 0, 0,
      0, 0, 0, 0, 0, 0, 0, 0, 0, 0, 0, 0, 0, 0, 0, 0, 0, 0, 1, 1, 1, 1, 1, 1, 1, 1, 1, 1, 1, 1, 1, 1,
      1, 1, 1, 1, 1, 1, 1, 1, 1, 1, 1, 1, 1, 1, 1, 1, 1, 1, 1, 1, 1, 1, 1, 2, 2, 2, 2, 2, 2, 2, 2, 2,
      2, 2, 2, 2, 2, 2, 2, 2, 2, 2, 2, 2, 2, 2, 2, 3, 3, 3, 3, 3, 3, 3, 3, 3, 3, 3, 3, 3, 3, 3, 3, 3,
      3, 4, 4, 4, 4, 4, 4, 4, 4, 4, 4, 4, 4, 4, 4, 4, 4, 5, 5, 5, 5, 5, 5, 5, 5, 5, 5, 5, 5, 5, 5, 6,
      6, 6, 6, 6, 6, 6, 6, 6, 6, 6, 6, 7, 7, 7, 7, 7, 7, 7, 7, 7, 7, 7, 7, 8, 8, 8, 8, 8, 8, 8, 8, 8,
      8, 9, 9, 9, 9, 9, 9, 9, 9, 9, 9, 10, 10, 10, 10, 10, 10, 10, 10, 10, 11, 11, 11, 11, 11, 11, 11,
      11, 11, 12, 12, 12, 12, 12, 12, 12, 12, 13, 13, 13, 13, 13, 13, 13, 13, 14, 14, 14, 14, 14, 14,
      14, 14, 15, 15, 15, 15, 15, 15, 15, 16, 16, 16, 16>>

\* _compand on k/RS, as the byte round(255 * value)
CompandTab ==
    <<0, 71, 99, 120, 137, 152, 165, 177, 188, 198, 207, 216, 225, 233, 240, 248, 255>>

RS == Len(CompandTab) - 1

OutStep == 4

_uncompand(v) == UncompandTab[v + 1]

_compand(k) == CompandTab[k + 1]

\* rows W, C, M, Y, R, G, B of the basis, one column per band
BASE_SPECTRA ==
    << <<1, 1, 1>>, <<0, 1, 1>>, <<1, 0, 1>>, <<1, 1, 0>>,
       <<1, 0, 0>>, <<0, 1, 0>>, <<0, 0, 1>> >>

Bands == 1..3

\* the D65-weighted y-bar row of _CMF times _DL, and its sum (100 / k_Y)
CMF_Y == <<2, 7, 1>>

CMF_Y_SUM == CMF_Y[1] + CMF_Y[2] + CMF_Y[3]

\* np.clip(R, 1e-6, 1.0): the floor is one unit
R_FLOOR == 1

\* _srgb_to_R: bytes -> reflectance per band, in units of 1/RS
_srgb_to_R(rgb) ==
    LET l0 == [k \in 1..3 |-> _uncompand(rgb[k])]
        w  == Min2(l0[1], Min2(l0[2], l0[3]))
        l  == [k \in 1..3 |-> l0[k] - w]
        c  == Min2(l[2], l[3])
        m  == Min2(l[1], l[3])
        y  == Min2(l[1], l[2])
        r  == Max2(0, Min2(l[1] - l[3], l[1] - l[2]))
        g  == Max2(0, Min2(l[2] - l[3], l[2] - l[1]))
        b  == Max2(0, Min2(l[3] - l[2], l[3] - l[1]))
        coeffs == <<w, c, m, y, r, g, b>>
        R(k) == coeffs[1] * BASE_SPECTRA[1][k] + coeffs[2] * BASE_SPECTRA[2][k]
              + coeffs[3] * BASE_SPECTRA[3][k] + coeffs[4] * BASE_SPECTRA[4][k]
              + coeffs[5] * BASE_SPECTRA[5][k] + coeffs[6] * BASE_SPECTRA[6][k]
              + coeffs[7] * BASE_SPECTRA[7][k]
    IN  [k \in Bands |-> Max2(R_FLOOR, Min2(RS, R(k)))]

\* a luminance that vanishes, as it would for a reflectance left at zero
luminance_zero(R) == 0

\* _luminance(R), in units of 1 / (RS * CMF_Y_SUM)
_luminance(R) == CMF_Y[1] * R[1] + CMF_Y[2] * R[2] + CMF_Y[3] * R[3]

\* _ks on one band: K/S = (1 - R)^2 / (2 R), after np.clip(r, 1e-9, 1.0)
_ks(r) ==
    LET rc == Max2(R_FLOOR, Min2(RS, r))
    IN  <<(RS - rc) * (RS - rc), rc>>

\* _km on one band: 1 + ks - sqrt(ks^2 + 2 ks) is the root R in (0, 1] of
\* (1 - R)^2 = 2 ks R, and (1 - x)^2 / (2 x) decreases on (0, 1]; so R >= x
\* iff ks <= (1 - x)^2 / (2 x).  The result is the multiple of OutStep
\* nearest to R: the largest s with R >= (2 s - 1) * OutStep / (2 RS).
_km(ks) ==
    LET p == Max2(ks[1], 0)
        q == ks[2]
        S == RS \div OutStep
        AtLeast(s) == 2 * (2 * s - 1) * p <= OutStep * (2 * S - (2 * s - 1)) * (2 * S - (2 * s - 1)) * q
        top == CHOOSE s \in 0..S : /\ (s = 0 \/ AtLeast(s))
                                   /\ \A s2 \in (s + 1)..S : ~AtLeast(s2)
    IN  top * OutStep

\* _R_to_srgb: with the ideal basis the linear channel k is band k;
\* np.clip(lrgb, 0, 1) and _compand; the result is a byte
_R_to_srgb(R) ==
    [k \in 1..3 |-> _compand(Max2(0, Min2(RS, R[k])))]

\* a K/S sum that is never divided by the total weight
KmTotal_unnormalised(concA, concB, one) == one

\* a guard that takes the larger of the total weight and 1.0
KmTotal_floor_one(concA, concB, one) == IF concA + concB > one THEN concA + concB ELSE one

\* the divisor of the K/S average: total = concA + concB or 1.0, where
\* one is ConcOne in the units of the weights
KmTotal(concA, concB, one) == IF concA + concB # 0 THEN concA + concB ELSE one

\* ks_mix = (ksA * concA + ksB * concB) / total on one band
KmKsMix(ksA, ksB, concA, concB, total) ==
    <<ksA[1] * concA * ksB[2] + ksB[1] * concB * ksA[2], ksA[2] * ksB[2] * total>>

\* the weight of A computed from t instead of 1 - t
KmConcA_swapped(i, d, lum) == i * i * lum

\* the weights (1 - t)^2 * L(Ra) and t^2 * L(Rb) with t = i / d, in units of
\* 1 / (d^2 * RS * CMF_Y_SUM)
KmConcA(i, d, lum) == (d - i) * (d - i) * lum

\* a weight linear in t
KmConcB_linear(i, d, lum) == i * d * lum

KmConcB(i, d, lum) == i * i * lum

\* km_mix(rgb_a, rgb_b, t) with t = i / d
km_mix(rgb_a, rgb_b, i, d) ==
    LET Ra == _srgb_to_R(rgb_a)
        Rb == _srgb_to_R(rgb_b)
        concA == KmConcA(i, d, _luminance(Ra))
        concB == KmConcB(i, d, _luminance(Rb))
        total == KmTotal(concA, concB, d * d * RS * CMF_Y_SUM)
        ks_mix == [k \in Bands |-> KmKsMix(_ks(Ra[k]), _ks(Rb[k]), concA, concB, total)]
    IN  _R_to_srgb([k \in Bands |-> _km(ks_mix[k])])

(***************************************************************************)
(* Transfer curve tables (app.py).  Linear light is counted in units of    *)
(* 1/LIN_ONE = 1/(4095 * 100); an entry of the inverse table is a channel  *)
(* in units of 1/(255 * 100).                                              *)
(***************************************************************************)
\* _srgb_forward_lut(): entry v is the linear value of the byte v
SrgbForwardLut ==
    <<0, 124, 249, 373, 497, 621, 746, 870, 994, 1119, 1243, 1370,
      1506, 1648, 1798, 1956, 2122, 2295, 2477, 2667, 2865, 3071, 3285, 3509,
      3740, 3981, 4230, 4488, 4755, 5031, 5317, 5611, 5915, 6228, 6550, 6883,
      7224, 7576, 7937, 8308, 8689, 9080, 9481, 9893, 10314, 10746, 11188, 11640,
      12104, 12577, 13061, 13556, 14062, 14579, 15106, 15645, 16194, 16755, 17327, 17909,
      18504, 19109, 19726, 20355, 20995, 21646, 22310, 22985, 23671, 24370, 25080, 25803,
      26537, 27283, 28042, 28812, 29595, 30390, 31198, 32018, 32850, 33695, 34552, 35422,
      36304, 37200, 38108, 39028, 39962, 40909, 41868, 42840, 43826, 44825, 45836, 46861,
      47899, 48951, 50016, 51094, 52186, 53291, 54410, 55542, 56688, 57847, 59021, 60208,
      61409, 62623, 63852, 65094, 66351, 67622, 68906, 70205, 71518, 72845, 74187, 75543,
      76913, 78297, 79696, 81109, 82537, 83980, 85437, 86908, 88395, 89896, 91412, 92943,
      94488, 96048, 97624, 99214, 100819, 102440, 104075, 105726, 107392, 109073, 110769, 112480,
      114207, 115949, 117707, 119480, 121269, 123073, 124892, 126728, 128578, 130445, 132327, 134225,
      136139, 138069, 140014, 141975, 143953, 145946, 147955, 149980, 152022, 154079, 156153, 158243,
      160349, 162471, 164610, 166765, 168936, 171124, 173328, 175549, 177786, 180040, 182310, 184597,
      186900, 189221, 191557, 193911, 196282, 198669, 201073, 203494, 205932, 208387, 210859, 213348,
      215854, 218377, 220917, 223474, 226049, 228640, 231249, 233876, 236519, 239180, 241858, 244554,
      247267, 249998, 252746, 255512, 258295, 261096, 263914, 266751, 269604, 272476, 275365, 278273,
      281198, 284140, 287101, 290080, 293076, 296091, 299124, 302174, 305243, 308330, 311435, 314558,
      317699, 320859, 324037, 327233, 330447, 333680, 336931, 340200, 343488, 346795, 350119, 353463,
      356825, 360205, 363605, 367022, 370459, 373914, 377388, 380880, 384392, 387922, 391471, 395039,
      398626, 402232, 405856, 409500>>

\* _srgb_inverse_lut(): entry k is the clamped gamma value of k/4095
SrgbInverseLut ==
    <<0, 80, 161, 241, 322, 402, 483, 563, 644, 724, 805, 885, 965, 1046, 1122, 1196,
      1267, 1335, 1401, 1465, 1527, 1587, 1646, 1703, 1758, 1812, 1865, 1917, 1968, 2017, 2066, 2114,
      2161, 2207, 2252, 2296, 2340, 2383, 2425, 2467, 2508, 2548, 2588, 2627, 2666, 2705, 2742, 2780,
      2816, 2853, 2889, 2924, 2960, 2994, 3029, 3063, 3096, 3130, 3163, 3195, 3228, 3260, 3291, 3323,
      3354, 3385, 3415, 3445, 3475, 3505, 3535, 3564, 3593, 3622, 3650, 3679, 3707, 3735, 3762, 3790,
      3817, 3844, 3871, 3898, 3924, 3951, 3977, 4003, 4029, 4054, 4080, 4105, 4130, 4155, 4180, 4205,
      4229, 4253, 4278, 4302, 4326, 4350, 4373, 4397, 4420, 4443, 4467, 4490, 4512, 4535, 4558, 4580,
      4603, 4625, 4647, 4669, 4691, 4713, 4735, 4756, 4778, 4799, 4821, 4842, 4863, 4884, 4905, 4926,
      4946, 4967, 4987, 5008, 5028, 5048, 5069, 5089, 5109, 5129, 5148, 5168, 5188, 5207, 5227, 5246,
      5266, 5285, 5304, 5323, 5342, 5361, 5380, 5399, 5418, 5436, 5455, 5473, 5492, 5510, 5528, 5547,
      5565, 5583, 5601, 5619, 5637, 5655, 5673, 5690, 5708, 5726, 5743, 5761, 5778, 5795, 5813, 5830,
      5847, 5864, 5881, 5898, 5915, 5932, 5949, 5966, 5983, 5999, 6016, 6033, 6049, 6066, 6082, 6098,
      6115, 6131, 6147, 6164, 6180, 6196, 6212, 6228, 6244, 6260, 6276, 6291, 6307, 6323, 6339, 6354,
      6370, 6385, 6401, 6416, 6432, 6447, 6462, 6478, 6493, 6508, 6523, 6538, 6554, 6569, 6584, 6599,
      6613, 6628, 6643, 6658, 6673, 6688, 6702, 6717, 6732, 6746, 6761, 6775, 6790, 6804, 6819, 6833,
      6847, 6862, 6876, 6890, 6904, 6918, 6933, 6947, 6961, 6975, 6989, 7003, 7017, 7031, 7044, 7058,
      7072, 7086, 7100, 7113, 7127, 7141, 7154, 7168, 7181, 7195, 7209, 7222, 7235, 7249, 7262, 7276,
      7289, 7302, 7315, 7329, 7342, 7355, 7368, 7381, 7395, 7408, 7421, 7434, 7447, 7460, 7473, 7486,
      7498, 7511, 7524, 7537, 7550, 7562, 7575, 7588, 7601, 7613, 7626, 7639, 7651, 7664, 7676, 7689,
      7701, 7714, 7726, 7739, 7751, 7763, 7776, 7788, 7800, 7813, 7825, 7837, 7849, 7861, 7874, 7886,
      7898, 7910, 7922, 7934, 7946, 7958, 7970, 7982, 7994, 8006, 8018, 8030, 8042, 8053, 8065, 8077,
      8089, 8101, 8112, 8124, 8136, 8147, 8159, 8171, 8182, 8194, 8206, 8217, 8229, 8240, 8252, 8263,
      8275, 8286, 8297, 8309, 8320, 8332, 8343, 8354, 8366, 8377, 8388, 8399, 8411, 8422, 8433, 8444,
      8456, 8467, 8478, 8489, 8500, 8511, 8522, 8533, 8544, 8555, 8566, 8577, 8588, 8599, 8610, 8621,
      8632, 8643, 8654, 8664, 8675, 8686, 8697, 8708, 8718, 8729, 8740, 8751, 8761, 8772, 8783, 8793,
      8804, 8815, 8825, 8836, 8846, 8857, 8868, 8878, 8889, 8899, 8910, 8920, 8931, 8941, 8951, 8962,
      8972, 8983, 8993, 9003, 9014, 9024, 9034, 9045, 9055, 9065, 9075, 9086, 9096, 9106, 9116, 9126,
      9137, 9147, 9157, 9167, 9177, 9187, 9197, 9207, 9218, 9228, 9238, 9248, 9258, 9268, 9278, 9288,
      9298, 9308, 9317, 9327, 9337, 9347, 9357, 9367, 9377, 9387, 9396, 9406, 9416, 9426, 9436, 9445,
      9455, 9465, 9475, 9484, 9494, 9504, 9513, 9523, 9533, 9542, 9552, 9562, 9571, 9581, 9590, 9600,
      9610, 9619, 9629, 9638, 9648, 9657, 9667, 9676, 9686, 9695, 9705, 9714, 9723, 9733, 9742, 9752,
      9761, 9770, 9780, 9789, 9799, 9808, 9817, 9826, 9836, 9845, 9854, 9864, 9873, 9882, 9891, 9901,
      9910, 9919, 9928, 9937, 9946, 9956, 9965, 9974, 9983, 9992, 10001, 10010, 10019, 10029, 10038, 10047,
      10056, 10065, 10074, 10083, 10092, 10101, 10110, 10119, 10128, 10137, 10146, 10155, 10164, 10172, 10181, 10190,
      10199, 10208, 10217, 10226, 10235, 10243, 10252, 10261, 10270, 10279, 10288, 10296, 10305, 10314, 10323, 10331,
      10340, 10349, 10358, 10366, 10375, 10384, 10392, 10401, 10410, 10418, 10427, 10436, 10444, 10453, 10462, 10470,
      10479, 10487, 10496, 10505, 10513, 10522, 10530, 10539, 10547, 10556, 10564, 10573, 10581, 10590, 10598, 10607,
      10615, 10624, 10632, 10641, 10649, 10657, 10666, 10674, 10683, 10691, 10699, 10708, 10716, 10724, 10733, 10741,
      10749, 10758, 10766, 10774, 10783, 10791, 10799, 10808, 10816, 10824, 10832, 10841, 10849, 10857, 10865, 10873,
      10882, 10890, 10898, 10906, 10914, 10923, 10931, 10939, 10947, 10955, 10963, 10971, 10980, 10988, 10996, 11004,
      11012, 11020, 11028, 11036, 11044, 11052, 11060, 11068, 11076, 11084, 11092, 11100, 11108, 11116, 11124, 11132,
      11140, 11148, 11156, 11164, 11172, 11180, 11188, 11196, 11204, 11212, 11220, 11228, 11235, 11243, 11251, 11259,
      11267, 11275, 11283, 11290, 11298, 11306, 11314, 11322, 11330, 11337, 11345, 11353, 11361, 11368, 11376, 11384,
      11392, 11400, 11407, 11415, 11423, 11430, 11438, 11446, 11454, 11461, 11469, 11477, 11484, 11492, 11500, 11507,
      11515, 11523, 11530, 11538, 11545, 11553, 11561, 11568, 11576, 11583, 11591, 11599, 11606, 11614, 11621, 11629,
      11636, 11644, 11652, 11659, 11667, 11674, 11682, 11689, 11697, 11704, 11712, 11719, 11727, 11734, 11741, 11749,
      11756, 11764, 11771, 11779, 11786, 11794, 11801, 11808, 11816, 11823, 11831, 11838, 11845, 11853, 11860, 11867,
      11875, 11882, 11890, 11897, 11904, 11912, 11919, 11926, 11934, 11941, 11948, 11955, 11963, 11970, 11977, 11985,
      11992, 11999, 12006, 12014, 12021, 12028, 12035, 12043, 12050, 12057, 12064, 12071, 12079, 12086, 12093, 12100,
      12107, 12115, 12122, 12129, 12136, 12143, 12150, 12158, 12165, 12172, 12179, 12186, 12193, 12200, 12207, 12214,
      12222, 12229, 12236, 12243, 12250, 12257, 12264, 12271, 12278, 12285, 12292, 12299, 12306, 12313, 12320, 12327,
      12334, 12341, 12348, 12355, 12362, 12369, 12376, 12383, 12390, 12397, 12404, 12411, 12418, 12425, 12432, 12439,
      12446, 12453, 12460, 12467, 12474, 12481, 12488, 12494, 12501, 12508, 12515, 12522, 12529, 12536, 12543, 12550,
      12556, 12563, 12570, 12577, 12584, 12591, 12597, 12604, 12611, 12618, 12625, 12632, 12638, 12645, 12652, 12659,
      12666, 12672, 12679, 12686, 12693, 12699, 12706, 12713, 12720, 12726, 12733, 12740, 12747, 12753, 12760, 12767,
      12774, 12780, 12787, 12794, 12800, 12807, 12814, 12820, 12827, 12834, 12840, 12847, 12854, 12860, 12867, 12874,
      12880, 12887, 12894, 12900, 12907, 12914, 12920, 12927, 12933, 12940, 12947, 12953, 12960, 12966, 12973, 12980,
      12986, 12993, 12999, 13006, 13012, 13019, 13025, 13032, 13039, 13045, 13052, 13058, 13065, 13071, 13078, 13084,
      13091, 13097, 13104, 13110, 13117, 13123, 13130, 13136, 13143, 13149, 13156, 13162, 13169, 13175, 13181, 13188,
      13194, 13201, 13207, 13214, 13220, 13226, 13233, 13239, 13246, 13252, 13259, 13265, 13271, 13278, 13284, 13291,
      13297, 13303, 13310, 13316, 13322, 13329, 13335, 13341, 13348, 13354, 13361, 13367, 13373, 13380, 13386, 13392,
      13398, 13405, 13411, 13417, 13424, 13430, 13436, 13443, 13449, 13455, 13461, 13468, 13474, 13480, 13487, 13493,
      13499, 13505, 13512, 13518, 13524, 13530, 13537, 13543, 13549, 13555, 13562, 13568, 13574, 13580, 13586, 13593,
      13599, 13605, 13611, 13617, 13624, 13630, 13636, 13642, 13648, 13654, 13661, 13667, 13673, 13679, 13685, 13691,
      13698, 13704, 13710, 13716, 13722, 13728, 13734, 13740, 13747, 13753, 13759, 13765, 13771, 13777, 13783, 13789,
      13795, 13802, 13808, 13814, 13820, 13826, 13832, 13838, 13844, 13850, 13856, 13862, 13868, 13874, 13880, 13886,
      13892, 13898, 13904, 13910, 13917, 13923, 13929, 13935, 13941, 13947, 13953, 13959, 13965, 13971, 13977, 13983,
      13989, 13995, 14000, 14006, 14012, 14018, 14024, 14030, 14036, 14042, 14048, 14054, 14060, 14066, 14072, 14078,
      14084, 14090, 14096, 14102, 14108, 14113, 14119, 14125, 14131, 14137, 14143, 14149, 14155, 14161, 14167, 14172,
      14178, 14184, 14190, 14196, 14202, 14208, 14214, 14219, 14225, 14231, 14237, 14243, 14249, 14255, 14260, 14266,
      14272, 14278, 14284, 14290, 14295, 14301, 14307, 14313, 14319, 14324, 14330, 14336, 14342, 14348, 14353, 14359,
      14365, 14371, 14376, 14382, 14388, 14394, 14400, 14405, 14411, 14417, 14423, 14428, 14434, 14440, 14446, 14451,
      14457, 14463, 14469, 14474, 14480, 14486, 14491, 14497, 14503, 14509, 14514, 14520, 14526, 14531, 14537, 14543,
      14549, 14554, 14560, 14566, 14571, 14577, 14583, 14588, 14594, 14600, 14605, 14611, 14617, 14622, 14628, 14634,
      14639, 14645, 14650, 14656, 14662, 14667, 14673, 14679, 14684, 14690, 14696, 14701, 14707, 14712, 14718, 14724,
      14729, 14735, 14740, 14746, 14752, 14757, 14763, 14768, 14774, 14779, 14785, 14791, 14796, 14802, 14807, 14813,
      14818, 14824, 14830, 14835, 14841, 14846, 14852, 14857, 14863, 14868, 14874, 14879, 14885, 14890, 14896, 14902,
      14907, 14913, 14918, 14924, 14929, 14935, 14940, 14946, 14951, 14957, 14962, 14968, 14973, 14979, 14984, 14989,
      14995, 15000, 15006, 15011, 15017, 15022, 15028, 15033, 15039, 15044, 15050, 15055, 15060, 15066, 15071, 15077,
      15082, 15088, 15093, 15099, 15104, 15109, 15115, 15120, 15126, 15131, 15136, 15142, 15147, 15153, 15158, 15163,
      15169, 15174, 15180, 15185, 15190, 15196, 15201, 15207, 15212, 15217, 15223, 15228, 15233, 15239, 15244, 15249,
      15255, 15260, 15266, 15271, 15276, 15282, 15287, 15292, 15298, 15303, 15308, 15314, 15319, 15324, 15330, 15335,
      15340, 15346, 15351, 15356, 15361, 15367, 15372, 15377, 15383, 15388, 15393, 15399, 15404, 15409, 15414, 15420,
      15425, 15430, 15436, 15441, 15446, 15451, 15457, 15462, 15467, 15472, 15478, 15483, 15488, 15493, 15499, 15504,
      15509, 15514, 15520, 15525, 15530, 15535, 15541, 15546, 15551, 15556, 15561, 15567, 15572, 15577, 15582, 15588,
      15593, 15598, 15603, 15608, 15614, 15619, 15624, 15629, 15634, 15640, 15645, 15650, 15655, 15660, 15665, 15671,
      15676, 15681, 15686, 15691, 15696, 15702, 15707, 15712, 15717, 15722, 15727, 15733, 15738, 15743, 15748, 15753,
      15758, 15763, 15769, 15774, 15779, 15784, 15789, 15794, 15799, 15804, 15810, 15815, 15820, 15825, 15830, 15835,
      15840, 15845, 15850, 15855, 15861, 15866, 15871, 15876, 15881, 15886, 15891, 15896, 15901, 15906, 15911, 15916,
      15922, 15927, 15932, 15937, 15942, 15947, 15952, 15957, 15962, 15967, 15972, 15977, 15982, 15987, 15992, 15997,
      16002, 16007, 16012, 16017, 16023, 16028, 16033, 16038, 16043, 16048, 16053, 16058, 16063, 16068, 16073, 16078,
      16083, 16088, 16093, 16098, 16103, 16108, 16113, 16118, 16123, 16128, 16133, 16138, 16143, 16148, 16153, 16158,
      16163, 16167, 16172, 16177, 16182, 16187, 16192, 16197, 16202, 16207, 16212, 16217, 16222, 16227, 16232, 16237,
      16242, 16247, 16252, 16257, 16262, 16266, 16271, 16276, 16281, 16286, 16291, 16296, 16301, 16306, 16311, 16316,
      16321, 16326, 16330, 16335, 16340, 16345, 16350, 16355, 16360, 16365, 16370, 16375, 16379, 16384, 16389, 16394,
      16399, 16404, 16409, 16414, 16418, 16423, 16428, 16433, 16438, 16443, 16448, 16452, 16457, 16462, 16467, 16472,
      16477, 16482, 16486, 16491, 16496, 16501, 16506, 16511, 16516, 16520, 16525, 16530, 16535, 16540, 16544, 16549,
      16554, 16559, 16564, 16569, 16573, 16578, 16583, 16588, 16593, 16597, 16602, 16607, 16612, 16617, 16621, 16626,
      16631, 16636, 16641, 16645, 16650, 16655, 16660, 16665, 16669, 16674, 16679, 16684, 16688, 16693, 16698, 16703,
      16707, 16712, 16717, 16722, 16727, 16731, 16736, 16741, 16746, 16750, 16755, 16760, 16765, 16769, 16774, 16779,
      16783, 16788, 16793, 16798, 16802, 16807, 16812, 16817, 16821, 16826, 16831, 16835, 16840, 16845, 16850, 16854,
      16859, 16864, 16868, 16873, 16878, 16883, 16887, 16892, 16897, 16901, 16906, 16911, 16915, 16920, 16925, 16929,
      16934, 16939, 16944, 16948, 16953, 16958, 16962, 16967, 16972, 16976, 16981, 16986, 16990, 16995, 17000, 17004,
      17009, 17014, 17018, 17023, 17027, 17032, 17037, 17041, 17046, 17051, 17055, 17060, 17065, 17069, 17074, 17078,
      17083, 17088, 17092, 17097, 17102, 17106, 17111, 17115, 17120, 17125, 17129, 17134, 17139, 17143, 17148, 17152,
      17157, 17162, 17166, 17171, 17175, 17180, 17185, 17189, 17194, 17198, 17203, 17208, 17212, 17217, 17221, 17226,
      17230, 17235, 17240, 17244, 17249, 17253, 17258, 17262, 17267, 17272, 17276, 17281, 17285, 17290, 17294, 17299,
      17303, 17308, 17313, 17317, 17322, 17326, 17331, 17335, 17340, 17344, 17349, 17353, 17358, 17363, 17367, 17372,
      17376, 17381, 17385, 17390, 17394, 17399, 17403, 17408, 17412, 17417, 17421, 17426, 17430, 17435, 17439, 17444,
      17448, 17453, 17457, 17462, 17466, 17471, 17475, 17480, 17484, 17489, 17493, 17498, 17502, 17507, 17511, 17516,
      17520, 17525, 17529, 17534, 17538, 17543, 17547, 17552, 17556, 17560, 17565, 17569, 17574, 17578, 17583, 17587,
      17592, 17596, 17601, 17605, 17610, 17614, 17618, 17623, 17627, 17632, 17636, 17641, 17645, 17650, 17654, 17658,
      17663, 17667, 17672, 17676, 17681, 17685, 17689, 17694, 17698, 17703, 17707, 17712, 17716, 17720, 17725, 17729,
      17734, 17738, 17742, 17747, 17751, 17756, 17760, 17764, 17769, 17773, 17778, 17782, 17786, 17791, 17795, 17800,
      17804, 17808, 17813, 17817, 17821, 17826, 17830, 17835, 17839, 17843, 17848, 17852, 17857, 17861, 17865, 17870,
      17874, 17878, 17883, 17887, 17891, 17896, 17900, 17904, 17909, 17913, 17918, 17922, 17926, 17931, 17935, 17939,
      17944, 17948, 17952, 17957, 17961, 17965, 17970, 17974, 17978, 17983, 17987, 17991, 17996, 18000, 18004, 18009,
      18013, 18017, 18022, 18026, 18030, 18035, 18039, 18043, 18047, 18052, 18056, 18060, 18065, 18069, 18073, 18078,
      18082, 18086, 18091, 18095, 18099, 18103, 18108, 18112, 18116, 18121, 18125, 18129, 18133, 18138, 18142, 18146,
      18151, 18155, 18159, 18163, 18168, 18172, 18176, 18180, 18185, 18189, 18193, 18198, 18202, 18206, 18210, 18215,
      18219, 18223, 18227, 18232, 18236, 18240, 18244, 18249, 18253, 18257, 18261, 18266, 18270, 18274, 18278, 18283,
      18287, 18291, 18295, 18300, 18304, 18308, 18312, 18316, 18321, 18325, 18329, 18333, 18338, 18342, 18346, 18350,
      18354, 18359, 18363, 18367, 18371, 18376, 18380, 18384, 18388, 18392, 18397, 18401, 18405, 18409, 18413, 18418,
      18422, 18426, 18430, 18434, 18439, 18443, 18447, 18451, 18455, 18459, 18464, 18468, 18472, 18476, 18480, 18485,
      18489, 18493, 18497, 18501, 18505, 18510, 18514, 18518, 18522, 18526, 18530, 18535, 18539, 18543, 18547, 18551,
      18555, 18560, 18564, 18568, 18572, 18576, 18580, 18585, 18589, 18593, 18597, 18601, 18605, 18609, 18614, 18618,
      18622, 18626, 18630, 18634, 18638, 18643, 18647, 18651, 18655, 18659, 18663, 18667, 18671, 18676, 18680, 18684,
      18688, 18692, 18696, 18700, 18704, 18708, 18713, 18717, 18721, 18725, 18729, 18733, 18737, 18741, 18745, 18750,
      18754, 18758, 18762, 18766, 18770, 18774, 18778, 18782, 18786, 18791, 18795, 18799, 18803, 18807, 18811, 18815,
      18819, 18823, 18827, 18831, 18835, 18840, 18844, 18848, 18852, 18856, 18860, 18864, 18868, 18872, 18876, 18880,
      18884, 18888, 18892, 18896, 18901, 18905, 18909, 18913, 18917, 18921, 18925, 18929, 18933, 18937, 18941, 18945,
      18949, 18953, 18957, 18961, 18965, 18969, 18973, 18977, 18981, 18986, 18990, 18994, 18998, 19002, 19006, 19010,
      19014, 19018, 19022, 19026, 19030, 19034, 19038, 19042, 19046, 19050, 19054, 19058, 19062, 19066, 19070, 19074,
      19078, 19082, 19086, 19090, 19094, 19098, 19102, 19106, 19110, 19114, 19118, 19122, 19126, 19130, 19134, 19138,
      19142, 19146, 19150, 19154, 19158, 19162, 19166, 19170, 19174, 19178, 19182, 19186, 19190, 19194, 19198, 19202,
      19206, 19210, 19214, 19218, 19222, 19226, 19230, 19234, 19238, 19242, 19246, 19249, 19253, 19257, 19261, 19265,
      19269, 19273, 19277, 19281, 19285, 19289, 19293, 19297, 19301, 19305, 19309, 19313, 19317, 19321, 19325, 19329,
      19332, 19336, 19340, 19344, 19348, 19352, 19356, 19360, 19364, 19368, 19372, 19376, 19380, 19384, 19388, 19391,
      19395, 19399, 19403, 19407, 19411, 19415, 19419, 19423, 19427, 19431, 19435, 19439, 19442, 19446, 19450, 19454,
      19458, 19462, 19466, 19470, 19474, 19478, 19482, 19485, 19489, 19493, 19497, 19501, 19505, 19509, 19513, 19517,
      19520, 19524, 19528, 19532, 19536, 19540, 19544, 19548, 19552, 19555, 19559, 19563, 19567, 19571, 19575, 19579,
      19583, 19586, 19590, 19594, 19598, 19602, 19606, 19610, 19614, 19617, 19621, 19625, 19629, 19633, 19637, 19641,
      19645, 19648, 19652, 19656, 19660, 19664, 19668, 19672, 19675, 19679, 19683, 19687, 19691, 19695, 19698, 19702,
      19706, 19710, 19714, 19718, 19722, 19725, 19729, 19733, 19737, 19741, 19745, 19748, 19752, 19756, 19760, 19764,
      19768, 19771, 19775, 19779, 19783, 19787, 19790, 19794, 19798, 19802, 19806, 19810, 19813, 19817, 19821, 19825,
      19829, 19832, 19836, 19840, 19844, 19848, 19852, 19855, 19859, 19863, 19867, 19871, 19874, 19878, 19882, 19886,
      19890, 19893, 19897, 19901, 19905, 19909, 19912, 19916, 19920, 19924, 19927, 19931, 19935, 19939, 19943, 19946,
      19950, 19954, 19958, 19962, 19965, 19969, 19973, 19977, 19980, 19984, 19988, 19992, 19996, 19999, 20003, 20007,
      20011, 20014, 20018, 20022, 20026, 20029, 20033, 20037, 20041, 20044, 20048, 20052, 20056, 20059, 20063, 20067,
      20071, 20075, 20078, 20082, 20086, 20090, 20093, 20097, 20101, 20104, 20108, 20112, 20116, 20119, 20123, 20127,
      20131, 20134, 20138, 20142, 20146, 20149, 20153, 20157, 20161, 20164, 20168, 20172, 20175, 20179, 20183, 20187,
      20190, 20194, 20198, 20202, 20205, 20209, 20213, 20216, 20220, 20224, 20228, 20231, 20235, 20239, 20242, 20246,
      20250, 20254, 20257, 20261, 20265, 20268, 20272, 20276, 20279, 20283, 20287, 20291, 20294, 20298, 20302, 20305,
      20309, 20313, 20316, 20320, 20324, 20328, 20331, 20335, 20339, 20342, 20346, 20350, 20353, 20357, 20361, 20364,
      20368, 20372, 20375, 20379, 20383, 20387, 20390, 20394, 20398, 20401, 20405, 20409, 20412, 20416, 20420, 20423,
      20427, 20431, 20434, 20438, 20442, 20445, 20449, 20453, 20456, 20460, 20464, 20467, 20471, 20475, 20478, 20482,
      20485, 20489, 20493, 20496, 20500, 20504, 20507, 20511, 20515, 20518, 20522, 20526, 20529, 20533, 20537, 20540,
      20544, 20547, 20551, 20555, 20558, 20562, 20566, 20569, 20573, 20577, 20580, 20584, 20587, 20591, 20595, 20598,
      20602, 20606, 20609, 20613, 20616, 20620, 20624, 20627, 20631, 20635, 20638, 20642, 20645, 20649, 20653, 20656,
      20660, 20663, 20667, 20671, 20674, 20678, 20682, 20685, 20689, 20692, 20696, 20700, 20703, 20707, 20710, 20714,
      20718, 20721, 20725, 20728, 20732, 20736, 20739, 20743, 20746, 20750, 20754, 20757, 20761, 20764, 20768, 20771,
      20775, 20779, 20782, 20786, 20789, 20793, 20797, 20800, 20804, 20807, 20811, 20814, 20818, 20822, 20825, 20829,
      20832, 20836, 20840, 20843, 20847, 20850, 20854, 20857, 20861, 20865, 20868, 20872, 20875, 20879, 20882, 20886,
      20889, 20893, 20897, 20900, 20904, 20907, 20911, 20914, 20918, 20921, 20925, 20929, 20932, 20936, 20939, 20943,
      20946, 20950, 20953, 20957, 20961, 20964, 20968, 20971, 20975, 20978, 20982, 20985, 20989, 20992, 20996, 20999,
      21003, 21007, 21010, 21014, 21017, 21021, 21024, 21028, 21031, 21035, 21038, 21042, 21045, 21049, 21052, 21056,
      21060, 21063, 21067, 21070, 21074, 21077, 21081, 21084, 21088, 21091, 21095, 21098, 21102, 21105, 21109, 21112,
      21116, 21119, 21123, 21126, 21130, 21133, 21137, 21140, 21144, 21147, 21151, 21154, 21158, 21161, 21165, 21168,
      21172, 21175, 21179, 21182, 21186, 21189, 21193, 21196, 21200, 21203, 21207, 21210, 21214, 21217, 21221, 21224,
      21228, 21231, 21235, 21238, 21242, 21245, 21249, 21252, 21256, 21259, 21263, 21266, 21270, 21273, 21277, 21280,
      21283, 21287, 21290, 21294, 21297, 21301, 21304, 21308, 21311, 21315, 21318, 21322, 21325, 21329, 21332, 21336,
      21339, 21342, 21346, 21349, 21353, 21356, 21360, 21363, 21367, 21370, 21374, 21377, 21380, 21384, 21387, 21391,
      21394, 21398, 21401, 21405, 21408, 21412, 21415, 21418, 21422, 21425, 21429, 21432, 21436, 21439, 21443, 21446,
      21449, 21453, 21456, 21460, 21463, 21467, 21470, 21473, 21477, 21480, 21484, 21487, 21491, 21494, 21498, 21501,
      21504, 21508, 21511, 21515, 21518, 21521, 21525, 21528, 21532, 21535, 21539, 21542, 21545, 21549, 21552, 21556,
      21559, 21563, 21566, 21569, 21573, 21576, 21580, 21583, 21586, 21590, 21593, 21597, 21600, 21603, 21607, 21610,
      21614, 21617, 21621, 21624, 21627, 21631, 21634, 21638, 21641, 21644, 21648, 21651, 21655, 21658, 21661, 21665,
      21668, 21672, 21675, 21678, 21682, 21685, 21688, 21692, 21695, 21699, 21702, 21705, 21709, 21712, 21716, 21719,
      21722, 21726, 21729, 21732, 21736, 21739, 21743, 21746, 21749, 21753, 21756, 21760, 21763, 21766, 21770, 21773,
      21776, 21780, 21783, 21786, 21790, 21793, 21797, 21800, 21803, 21807, 21810, 21813, 21817, 21820, 21824, 21827,
      21830, 21834, 21837, 21840, 21844, 21847, 21850, 21854, 21857, 21860, 21864, 21867, 21871, 21874, 21877, 21881,
      21884, 21887, 21891, 21894, 21897, 21901, 21904, 21907, 21911, 21914, 21917, 21921, 21924, 21927, 21931, 21934,
      21937, 21941, 21944, 21947, 21951, 21954, 21957, 21961, 21964, 21967, 21971, 21974, 21977, 21981, 21984, 21987,
      21991, 21994, 21997, 22001, 22004, 22007, 22011, 22014, 22017, 22021, 22024, 22027, 22031, 22034, 22037, 22041,
      22044, 22047, 22051, 22054, 22057, 22061, 22064, 22067, 22071, 22074, 22077, 22080, 22084, 22087, 22090, 22094,
      22097, 22100, 22104, 22107, 22110, 22114, 22117, 22120, 22123, 22127, 22130, 22133, 22137, 22140, 22143, 22147,
      22150, 22153, 22156, 22160, 22163, 22166, 22170, 22173, 22176, 22179, 22183, 22186, 22189, 22193, 22196, 22199,
      22203, 22206, 22209, 22212, 22216, 22219, 22222, 22226, 22229, 22232, 22235, 22239, 22242, 22245, 22248, 22252,
      22255, 22258, 22262, 22265, 22268, 22271, 22275, 22278, 22281, 22284, 22288, 22291, 22294, 22298, 22301, 22304,
      22307, 22311, 22314, 22317, 22320, 22324, 22327, 22330, 22333, 22337, 22340, 22343, 22347, 22350, 22353, 22356,
      22360, 22363, 22366, 22369, 22373, 22376, 22379, 22382, 22386, 22389, 22392, 22395, 22399, 22402, 22405, 22408,
      22412, 22415, 22418, 22421, 22425, 22428, 22431, 22434, 22438, 22441, 22444, 22447, 22451, 22454, 22457, 22460,
      22463, 22467, 22470, 22473, 22476, 22480, 22483, 22486, 22489, 22493, 22496, 22499, 22502, 22505, 22509, 22512,
      22515, 22518, 22522, 22525, 22528, 22531, 22535, 22538, 22541, 22544, 22547, 22551, 22554, 22557, 22560, 22564,
      22567, 22570, 22573, 22576, 22580, 22583, 22586, 22589, 22592, 22596, 22599, 22602, 22605, 22609, 22612, 22615,
      22618, 22621, 22625, 22628, 22631, 22634, 22637, 22641, 22644, 22647, 22650, 22653, 22657, 22660, 22663, 22666,
      22669, 22673, 22676, 22679, 22682, 22685, 22689, 22692, 22695, 22698, 22701, 22705, 22708, 22711, 22714, 22717,
      22720, 22724, 22727, 22730, 22733, 22736, 22740, 22743, 22746, 22749, 22752, 22756, 22759, 22762, 22765, 22768,
      22771, 22775, 22778, 22781, 22784, 22787, 22791, 22794, 22797, 22800, 22803, 22806, 22810, 22813, 22816, 22819,
      22822, 22825, 22829, 22832, 22835, 22838, 22841, 22844, 22848, 22851, 22854, 22857, 22860, 22863, 22867, 22870,
      22873, 22876, 22879, 22882, 22886, 22889, 22892, 22895, 22898, 22901, 22904, 22908, 22911, 22914, 22917, 22920,
      22923, 22927, 22930, 22933, 22936, 22939, 22942, 22945, 22949, 22952, 22955, 22958, 22961, 22964, 22967, 22971,
      22974, 22977, 22980, 22983, 22986, 22989, 22993, 22996, 22999, 23002, 23005, 23008, 23011, 23015, 23018, 23021,
      23024, 23027, 23030, 23033, 23036, 23040, 23043, 23046, 23049, 23052, 23055, 23058, 23062, 23065, 23068, 23071,
      23074, 23077, 23080, 23083, 23086, 23090, 23093, 23096, 23099, 23102, 23105, 23108, 23111, 23115, 23118, 23121,
      23124, 23127, 23130, 23133, 23136, 23139, 23143, 23146, 23149, 23152, 23155, 23158, 23161, 23164, 23167, 23171,
      23174, 23177, 23180, 23183, 23186, 23189, 23192, 23195, 23199, 23202, 23205, 23208, 23211, 23214, 23217, 23220,
      23223, 23226, 23230, 23233, 23236, 23239, 23242, 23245, 23248, 23251, 23254, 23257, 23260, 23264, 23267, 23270,
      23273, 23276, 23279, 23282, 23285, 23288, 23291, 23294, 23298, 23301, 23304, 23307, 23310, 23313, 23316, 23319,
      23322, 23325, 23328, 23331, 23335, 23338, 23341, 23344, 23347, 23350, 23353, 23356, 23359, 23362, 23365, 23368,
      23371, 23375, 23378, 23381, 23384, 23387, 23390, 23393, 23396, 23399, 23402, 23405, 23408, 23411, 23414, 23417,
      23421, 23424, 23427, 23430, 23433, 23436, 23439, 23442, 23445, 23448, 23451, 23454, 23457, 23460, 23463, 23466,
      23469, 23473, 23476, 23479, 23482, 23485, 23488, 23491, 23494, 23497, 23500, 23503, 23506, 23509, 23512, 23515,
      23518, 23521, 23524, 23527, 23530, 23534, 23537, 23540, 23543, 23546, 23549, 23552, 23555, 23558, 23561, 23564,
      23567, 23570, 23573, 23576, 23579, 23582, 23585, 23588, 23591, 23594, 23597, 23600, 23603, 23606, 23609, 23612,
      23616, 23619, 23622, 23625, 23628, 23631, 23634, 23637, 23640, 23643, 23646, 23649, 23652, 23655, 23658, 23661,
      23664, 23667, 23670, 23673, 23676, 23679, 23682, 23685, 23688, 23691, 23694, 23697, 23700, 23703, 23706, 23709,
      23712, 23715, 23718, 23721, 23724, 23727, 23730, 23733, 23736, 23739, 23742, 23745, 23748, 23751, 23754, 23757,
      23760, 23763, 23766, 23769, 23772, 23775, 23778, 23781, 23784, 23787, 23790, 23793, 23796, 23799, 23802, 23805,
      23808, 23811, 23814, 23817, 23820, 23823, 23826, 23829, 23832, 23835, 23838, 23841, 23844, 23847, 23850, 23853,
      23856, 23859, 23862, 23865, 23868, 23871, 23874, 23877, 23880, 23883, 23886, 23889, 23892, 23895, 23898, 23901,
      23904, 23907, 23910, 23913, 23916, 23919, 23922, 23925, 23928, 23931, 23934, 23937, 23940, 23943, 23946, 23949,
      23952, 23955, 23958, 23961, 23964, 23967, 23970, 23973, 23976, 23978, 23981, 23984, 23987, 23990, 23993, 23996,
      23999, 24002, 24005, 24008, 24011, 24014, 24017, 24020, 24023, 24026, 24029, 24032, 24035, 24038, 24041, 24044,
      24047, 24050, 24053, 24056, 24058, 24061, 24064, 24067, 24070, 24073, 24076, 24079, 24082, 24085, 24088, 24091,
      24094, 24097, 24100, 24103, 24106, 24109, 24112, 24115, 24118, 24120, 24123, 24126, 24129, 24132, 24135, 24138,
      24141, 24144, 24147, 24150, 24153, 24156, 24159, 24162, 24165, 24168, 24171, 24173, 24176, 24179, 24182, 24185,
      24188, 24191, 24194, 24197, 24200, 24203, 24206, 24209, 24212, 24215, 24217, 24220, 24223, 24226, 24229, 24232,
      24235, 24238, 24241, 24244, 24247, 24250, 24253, 24256, 24258, 24261, 24264, 24267, 24270, 24273, 24276, 24279,
      24282, 24285, 24288, 24291, 24294, 24296, 24299, 24302, 24305, 24308, 24311, 24314, 24317, 24320, 24323, 24326,
      24329, 24331, 24334, 24337, 24340, 24343, 24346, 24349, 24352, 24355, 24358, 24361, 24363, 24366, 24369, 24372,
      24375, 24378, 24381, 24384, 24387, 24390, 24392, 24395, 24398, 24401, 24404, 24407, 24410, 24413, 24416, 24419,
      24421, 24424, 24427, 24430, 24433, 24436, 24439, 24442, 24445, 24448, 24450, 24453, 24456, 24459, 24462, 24465,
      24468, 24471, 24474, 24476, 24479, 24482, 24485, 24488, 24491, 24494, 24497, 24500, 24502, 24505, 24508, 24511,
      24514, 24517, 24520, 24523, 24526, 24528, 24531, 24534, 24537, 24540, 24543, 24546, 24549, 24551, 24554, 24557,
      24560, 24563, 24566, 24569, 24572, 24574, 24577, 24580, 24583, 24586, 24589, 24592, 24595, 24597, 24600, 24603,
      24606, 24609, 24612, 24615, 24618, 24620, 24623, 24626, 24629, 24632, 24635, 24638, 24640, 24643, 24646, 24649,
      24652, 24655, 24658, 24661, 24663, 24666, 24669, 24672, 24675, 24678, 24681, 24683, 24686, 24689, 24692, 24695,
      24698, 24701, 24703, 24706, 24709, 24712, 24715, 24718, 24721, 24723, 24726, 24729, 24732, 24735, 24738, 24740,
      24743, 24746, 24749, 24752, 24755, 24758, 24760, 24763, 24766, 24769, 24772, 24775, 24777, 24780, 24783, 24786,
      24789, 24792, 24795, 24797, 24800, 24803, 24806, 24809, 24812, 24814, 24817, 24820, 24823, 24826, 24829, 24831,
      24834, 24837, 24840, 24843, 24846, 24848, 24851, 24854, 24857, 24860, 24863, 24865, 24868, 24871, 24874, 24877,
      24880, 24882, 24885, 24888, 24891, 24894, 24897, 24899, 24902, 24905, 24908, 24911, 24913, 24916, 24919, 24922,
      24925, 24928, 24930, 24933, 24936, 24939, 24942, 24945, 24947, 24950, 24953, 24956, 24959, 24961, 24964, 24967,
      24970, 24973, 24976, 24978, 24981, 24984, 24987, 24990, 24992, 24995, 24998, 25001, 25004, 25006, 25009, 25012,
      25015, 25018, 25020, 25023, 25026, 25029, 25032, 25035, 25037, 25040, 25043, 25046, 25049, 25051, 25054, 25057,
      25060, 25063, 25065, 25068, 25071, 25074, 25077, 25079, 25082, 25085, 25088, 25091, 25093, 25096, 25099, 25102,
      25104, 25107, 25110, 25113, 25116, 25118, 25121, 25124, 25127, 25130, 25132, 25135, 25138, 25141, 25144, 25146,
      25149, 25152, 25155, 25158, 25160, 25163, 25166, 25169, 25171, 25174, 25177, 25180, 25183, 25185, 25188, 25191,
      25194, 25197, 25199, 25202, 25205, 25208, 25210, 25213, 25216, 25219, 25222, 25224, 25227, 25230, 25233, 25235,
      25238, 25241, 25244, 25246, 25249, 25252, 25255, 25258, 25260, 25263, 25266, 25269, 25271, 25274, 25277, 25280,
      25283, 25285, 25288, 25291, 25294, 25296, 25299, 25302, 25305, 25307, 25310, 25313, 25316, 25318, 25321, 25324,
      25327, 25330, 25332, 25335, 25338, 25341, 25343, 25346, 25349, 25352, 25354, 25357, 25360, 25363, 25365, 25368,
      25371, 25374, 25376, 25379, 25382, 25385, 25387, 25390, 25393, 25396, 25398, 25401, 25404, 25407, 25409, 25412,
      25415, 25418, 25420, 25423, 25426, 25429, 25431, 25434, 25437, 25440, 25442, 25445, 25448, 25451, 25453, 25456,
      25459, 25462, 25464, 25467, 25470, 25473, 25475, 25478, 25481, 25484, 25486, 25489, 25492, 25495, 25497, 25500>>

LUT_LAST == Len(SrgbInverseLut) - 1

LIN_ONE == SrgbForwardLut[256]

LIN_PER_IDX == LIN_ONE \div LUT_LAST

\* truncation toward zero, as astype(int) does
TruncDiv(num, den) == IF num >= 0 THEN num \div den ELSE 0 - ((0 - num) \div den)

\* srgb_to_linear on one byte
srgb_to_linear(v) == SrgbForwardLut[v + 1]

\* the index linear_to_srgb computes for a linear value num/den (units of
\* 1/LIN_ONE): min(int(x * 4095 + 0.5), 4095)
LutIndex(num, den) ==
    Min2(TruncDiv(2 * num + den * LIN_PER_IDX, 2 * den * LIN_PER_IDX), LUT_LAST)

\* indexing the table as numpy does: a negative index counts from the end,
\* an index below -4096 raises IndexError
\* linear_to_srgb on one channel: <<TRUE, channel>> or <<FALSE, 0>> (IndexError)
linear_to_srgb(num, den) ==
    LET idx == LutIndex(num, den)
        size == LUT_LAST + 1
    IN  IF idx >= 0 THEN <<TRUE, Frac(SrgbInverseLut[idx + 1], 100)>>
        ELSE IF idx >= 0 - size THEN <<TRUE, Frac(SrgbInverseLut[size + idx + 1], 100)>>
        ELSE <<FALSE, Frac(0, 1)>>

\* linear_to_srgb on a colour, then clamp01
LinearToSrgbClamped(lin) ==
    LET c == [k \in 1..3 |-> linear_to_srgb(lin[k][1], lin[k][2])]
    IN  IF c[1][1] /\ c[2][1] /\ c[3][1]
        THEN Ok([k \in 1..3 |-> Clip01(c[k][2])])
        ELSE Raised

linear_interp(a, b, i, d) ==
    {LinearToSrgbClamped([k \in 1..3 |->
        lerp(srgb_to_linear(a[k]), srgb_to_linear(b[k]), i, d)])}

(***************************************************************************)
(* Oklab, OkHSV and CAM16-UCS.  The matrix, cube-root and trigonometric    *)
(* arithmetic of srgb_to_oklab / oklab_to_srgb / okhsv_to_srgb and the     *)
(* appearance model of the coloraide library are not computed: what they   *)
(* hand to the code that follows is one of a few sample values, each the   *)
(* value the program computes for the inputs named beside it.              *)
(***************************************************************************)
\* _M1_INV @ lms of oklab_to_srgb, in units of 1/LIN_ONE:
\*   the grey between #000000 and #ffffff,
\*   #0099ff -> #00ff00 at t = 0.6 (red channel below 0),
\*   #0000ff -> #ffffff at t = 0.6 (blue channel above 1)
OklabLrgbSamples ==
    { <<51200, 51200, 51200>>, <<-80880, 279620, 154810>>, <<38050, 153660, 457190>> }

\* the same for okhsv_to_srgb:
\*   #0099ff -> #ff6600 at t = 0.5 (blue channel below -1),
\*   #ff0066 -> #0099ff at t = 0.6 (channels far above 1 and below 0)
OkhsvLrgbSamples ==
    { <<51200, 51200, 51200>>, <<71820, 82270, -800270>>, <<1641700, -321900, 9529300>> }

\* the bytes of the hex string the library returns for the mixed colour
Cam16Samples == { <<128, 0, 128>> }

oklab_to_srgb(lrgb) == LinearToSrgbClamped([k \in 1..3 |-> Frac(lrgb[k], 1)])

oklab_interp(a, b, i, d) == {oklab_to_srgb(l) : l \in OklabLrgbSamples}

okhsv_interp(a, b, i, d) == {oklab_to_srgb(l) : l \in OkhsvLrgbSamples}

\* cam16_interp: the library call either raises (logged and re-raised) or
\* yields a hex string, which hex_to_rgb01 turns into bytes / 255
cam16_interp(a, b, i, d) ==
    {Raised} \cup {Ok([k \in 1..3 |-> Frac(c[k], 1)]) : c \in Cam16Samples}

km_interp(a, b, i, d) ==
    LET out == km_mix(a, b, i, d) IN {Ok([k \in 1..3 |-> Frac(out[k], 1)])}

\* INTERPOLATORS: the registry of app.py
INTERPOLATORS == {"srgb", "linear", "oklab", "okhsv", "cam16ucs", "km_sub"}

\* INTERPOLATORS[algo](rgb_a, rgb_b, i / d)
Interpolate(algo, a, b, i, d) ==
    CASE algo = "srgb"     -> srgb_interp(a, b, i, d)
      [] algo = "linear"   -> linear_interp(a, b, i, d)
      [] algo = "oklab"    -> oklab_interp(a, b, i, d)
      [] algo = "okhsv"    -> okhsv_interp(a, b, i, d)
      [] algo = "cam16ucs" -> cam16_interp(a, b, i, d)
      [] algo = "km_sub"   -> km_interp(a, b, i, d)
      [] OTHER             -> {Raised}      \* KeyError

(***************************************************************************)
(* The /mix request handler (app.py, mix).                                 *)
(***************************************************************************)
VARIABLES
    pc,        \* "idle": no request being handled; "loop": inside the palette loop; "done": answered
    args,      \* the query arguments of the request being handled
    algo,      \* the algorithm key read from the request
    n,         \* the step count after the clamp
    rgb_a,     \* endpoint A as bytes (channels in units of 1/255)
    rgb_b,     \* endpoint B
    i,         \* the loop index
    rgb,       \* the colour the interpolator returned last (<<>> before the first)
    palette,   \* the palette built so far
    resp,      \* the responses sent for this request
    calls      \* the step indices at which the interpolator has been called

mixVars == <<pc, args, algo, n, rgb_a, rgb_b, i, rgb, palette, resp, calls>>

\* a query argument: absent, or a string
Absent == [kind |-> "absent", val |-> <<>>]

Str(s) == [kind |-> "str", val |-> s]

\* request.args.get(key, default)
ArgGet(arg, default) == IF arg.kind = "absent" THEN default ELSE arg.val

DecDigits == <<"0","1","2","3","4","5","6","7","8","9">>

IsDecDigit(c) == \E k \in 1..10 : DecDigits[k] = c

RECURSIVE DecValue(_)
DecValue(s) ==
    IF s = <<>> THEN 0
    ELSE 10 * DecValue(SubSeq(s, 1, Len(s) - 1))
         + ((CHOOSE k \in 1..10 : DecDigits[k] = s[Len(s)]) - 1)

\* int(s) for a decimal string: an optional sign and at least one digit;
\* <<TRUE, value>> or <<FALSE, 0>> (ValueError)
PyInt(s) ==
    LET signed == s # <<>> /\ s[1] \in {"+", "-"}
        body   == IF signed THEN Tail(s) ELSE s
    IN  IF body # <<>> /\ \A k \in 1..Len(body) : IsDecDigit(body[k])
        THEN <<TRUE, IF signed /\ s[1] = "-" THEN 0 - DecValue(body) ELSE DecValue(body)>>
        ELSE <<FALSE, 0>>

N_DEFAULT == 21

N_MIN == 3

N_MAX == 256

\* a clamp from above only
ClampN_no_floor(k) == Min2(k, N_MAX)

\* n = max(3, min(n, 256))
ClampN(k) == Max2(N_MIN, Min2(k, N_MAX))

DEFAULT_A == <<"#","f","f","0","0","0","0">>

DEFAULT_B == <<"#","0","0","0","0","f","f">>

DEFAULT_ALGO == "srgb"

Palette200(p) == [status |-> 200, kind |-> "palette", body |-> p]

Error(code) == [status |-> code, kind |-> "error", body |-> <<>>]

\* a registry lookup that lets every key through
Registered_any(key) == TRUE

\* algo in INTERPOLATORS, line 248
Registered(key) == key \in INTERPOLATORS

\* an exception handler that answers with the colours computed so far
RaiseResponse_partial(p) == Palette200(p)

\* the answer of the except branch of the loop, line 264, p being the
\* palette built so far
RaiseResponse(p) == Error(500)

(***************************************************************************)
(* The requests tried.                                                     *)
(***************************************************************************)
HexArgs ==
    { Absent,
      Str(<<"#","f","f","f","f","f","f">>),
      Str(<<"#","#","0","0","f","f","0","0">>),
      Str(<<"+","f","0","0","0","0">>),
      Str(<<"f","f","f">>),
      Str(<<"f","f","0","0","0","0","0">>),
      Str(<<"g","g","0","0","0","0">>),
      Str(<<>>) }

AlgoArgs ==
    { Absent } \cup
    { Str(k) : k \in INTERPOLATORS \cup {"cam16jmh", "hct", "hct_tone", "mix_hct", "bogus"} }

\* the decimal string of k, for -9 <= k <= 9
DecStr(k) == IF k < 0 THEN <<"-", DecDigits[1 - k]>> ELSE <<DecDigits[k + 1]>>

NArgs ==
    { Absent, Str(<<"x">>), Str(<<"3","0","0">>) } \cup { Str(DecStr(k)) : k \in (0 - 1)..MaxNArg }

\* the requests of more than MaxNArg steps that are followed are those of
\* these algorithms with the default colour b
LongLoopAlgos == {"srgb", "linear", "cam16ucs"}

MixInit ==
    /\ pc = "idle"
    /\ args = [a |-> Absent, b |-> Absent, algo |-> Absent, n |-> Absent]
    /\ algo = DEFAULT_ALGO
    /\ n = 0
    /\ rgb_a = <<0, 0, 0>>
    /\ rgb_b = <<0, 0, 0>>
    /\ i = 0
    /\ rgb = <<>>
    /\ palette = <<>>
    /\ resp = <<>>
    /\ calls = <<>>

\* mix(), lines 242-258: read the arguments and either answer with an error
\* or enter the palette loop
Request(a, b, al, nn) ==
    /\ pc = "idle"
    /\ LET hex_a == <<"#">> \o LStripHash(ArgGet(a, DEFAULT_A))
           hex_b == <<"#">> \o LStripHash(ArgGet(b, DEFAULT_B))
           key   == ArgGet(al, DEFAULT_ALGO)
           parsed == IF nn.kind = "absent" THEN <<TRUE, N_DEFAULT>> ELSE PyInt(nn.val)
           pa == hex_to_rgb01(hex_a)
           pb == hex_to_rgb01(hex_b)
       IN  /\ (parsed[1] /\ ClampN(parsed[2]) > MaxNArg /\ key \in INTERPOLATORS)
                  => (key \in LongLoopAlgos /\ b = Absent)
           /\ args' = [a |-> a, b |-> b, algo |-> al, n |-> nn]
           /\ algo' = key
           /\ i' = 0
           /\ rgb' = <<>>
           /\ palette' = <<>>
           /\ calls' = <<>>
           /\ IF ~parsed[1]
              THEN \* int() raises ValueError, which nothing catches
                   /\ resp' = <<Error(500)>>
                   /\ pc' = "done"
                   /\ UNCHANGED <<n, rgb_a, rgb_b>>
              ELSE /\ n' = ClampN(parsed[2])
                   /\ IF ~Registered(key)
                      THEN /\ resp' = <<Error(400)>>
                           /\ pc' = "done"
                           /\ UNCHANGED <<rgb_a, rgb_b>>
                      ELSE IF ~pa.ok \/ ~pb.ok
                      THEN /\ resp' = <<Error(400)>>
                           /\ pc' = "done"
                           /\ UNCHANGED <<rgb_a, rgb_b>>
                      ELSE /\ rgb_a' = pa.rgb
                           /\ rgb_b' = pb.rgb
                           /\ resp' = <<>>
                           /\ pc' = "loop"

\* one iteration of the loop, lines 259-265
Step ==
    /\ pc = "loop"
    /\ i < n
    /\ calls' = Append(calls, i)
    /\ \E o \in Interpolate(algo, rgb_a, rgb_b, i, n - 1) :
          IF o.ok
          THEN /\ rgb' = o.rgb
               /\ palette' = Append(palette, rgb01_to_hex(o.rgb))
               /\ i' = i + 1
               /\ UNCHANGED <<pc, resp>>
          ELSE /\ resp' = <<RaiseResponse(palette)>>
               /\ pc' = "done"
               /\ UNCHANGED <<palette, i, rgb>>
    /\ UNCHANGED <<args, algo, n, rgb_a, rgb_b>>

\* return jsonify(palette), line 266
Return ==
    /\ pc = "loop"
    /\ i = n
    /\ resp' = <<Palette200(palette)>>
    /\ pc' = "done"
    /\ UNCHANGED <<args, algo, n, rgb_a, rgb_b, i, rgb, palette, calls>>

\* the response has been sent and the handler's locals are gone
Finish ==
    /\ pc = "done"
    /\ pc' = "idle"
    /\ args' = [a |-> Absent, b |-> Absent, algo |-> Absent, n |-> Absent]
    /\ algo' = DEFAULT_ALGO
    /\ n' = 0
    /\ rgb_a' = <<0, 0, 0>>
    /\ rgb_b' = <<0, 0, 0>>
    /\ i' = 0
    /\ rgb' = <<>>
    /\ palette' = <<>>
    /\ resp' = <<>>
    /\ calls' = <<>>

(***************************************************************************)
(* km_mix applied along t = 0, 1/d, ..., 1, as the tests of                 *)
(* test_kubelka.py apply it (np.linspace(0, 1, d + 1)).                     *)
(***************************************************************************)
VARIABLES
    km_pc,     \* "idle", "sweep" or "done"
    km_a,      \* endpoint A as bytes
    km_b,      \* endpoint B
    km_d,      \* t runs over k / km_d
    km_seq     \* the colours returned so far, for t = 0, 1/d, ...

kmVars == <<km_pc, km_a, km_b, km_d, km_seq>>

MaxKmD == 4

\* np.linspace(0, 1, 11) of test_monotonic_luminance_with_white
LINSPACE_N == 11

KmDs == 1..MaxKmD \cup {LINSPACE_N - 1}

\* the channel bytes tried: linear light 0, 1/4 and 1
KmBytes == {_compand(0), _compand(OutStep), _compand(RS)}

KmColours == {<<r, g, b>> : r \in KmBytes, g \in KmBytes, b \in KmBytes}

KmInit ==
    /\ km_pc = "idle"
    /\ km_a = <<0, 0, 0>>
    /\ km_b = <<0, 0, 0>>
    /\ km_d = 1
    /\ km_seq = <<>>

KmStart(a, b, d) ==
    /\ km_pc = "idle"
    /\ km_pc' = "sweep"
    /\ km_a' = a
    /\ km_b' = b
    /\ km_d' = d
    /\ km_seq' = <<>>

\* seq.append(km_mix(a, b, t)) for the next t
KmStep ==
    /\ km_pc = "sweep"
    /\ Len(km_seq) <= km_d
    /\ km_seq' = Append(km_seq, km_mix(km_a, km_b, Len(km_seq), km_d))
    /\ UNCHANGED <<km_pc, km_a, km_b, km_d>>

KmEnd ==
    /\ km_pc = "sweep"
    /\ Len(km_seq) = km_d + 1
    /\ km_pc' = "done"
    /\ UNCHANGED <<km_a, km_b, km_d, km_seq>>

KmFinish ==
    /\ km_pc = "done"
    /\ km_pc' = "idle"
    /\ km_a' = <<0, 0, 0>>
    /\ km_b' = <<0, 0, 0>>
    /\ km_d' = 1
    /\ km_seq' = <<>>

(***************************************************************************)
(* HCT mixer (hct_mixer.py).                                               *)
(*                                                                         *)
(* Hue is counted in steps of quant_h (a quarter degree), tone in steps of *)
(* quant_t (a quarter), chroma in units of cmax_hi / CH_HI; an             *)
(* interpolated hue, tone or chroma is a fraction <<num, den>> of these.   *)
(* Saturation is counted in units of 1 / SAT_ONE.                          *)
(*                                                                         *)
(* The conversions between HCT and sRGB and the gamut test belong to the   *)
(* coloraide library.  A colour string is modelled as the spelling of the  *)
(* string and the colour it denotes, the colour by its HCT coordinates on  *)
(* the grid above; the gamut is a region c <= boundary(h, t) that closes   *)
(* at tone 0 and at tone 100.                                              *)
(***************************************************************************)
\* quant_h = 0.25 and quant_t = 0.25: grid steps per degree and per tone unit
HQ == 4

TQ == 4

HUE_FULL == 360 * HQ

HUE_HALF == 180 * HQ

TONE_MAX == 100 * TQ

\* cmax_iters
CMAX_ITERS == 8

\* cmax_hi = 120.0, in chroma units: two units per last bisection step
CH_HI == 512

\* NaN, the hue coloraide gives an achromatic colour: a mark outside 0..HUE_FULL
NaN == 0 - 1

SinhTab ==
    << 0, 4, 8, 12, 15, 19, 23, 27, 31, 35, 39, 42, 46, 50, 54, 58,
       62, 66, 69, 73, 77, 81, 85, 89, 93, 97, 101, 105, 108, 112, 116, 120,
       124, 128, 132, 136, 140, 144, 148, 152, 156, 160, 164, 168, 172, 176, 180, 184,
       188, 192, 196, 200, 204, 208, 212, 216, 220, 224, 229, 233, 237, 241, 245, 249,
       253, 258, 262, 266, 270, 275, 279, 283, 287, 292, 296, 300, 304, 309, 313, 317,
       322, 326, 331, 335, 339, 344, 348, 353, 357, 362, 366, 371, 375, 380, 384, 389,
       394, 398, 403, 407, 412, 417, 422, 426, 431, 436, 440, 445, 450, 455, 460, 465,
       469, 474, 479, 484, 489, 494, 499, 504, 509, 514, 519, 524, 530, 535, 540, 545,
       550, 556, 561, 566, 571, 577, 582, 587, 593, 598, 604, 609, 615, 620, 626, 631,
       637, 643, 648, 654, 660, 665, 671, 677, 683, 689, 695, 700, 706, 712, 718, 724,
       730, 736, 743, 749, 755, 761, 767, 774, 780, 786, 793, 799, 805, 812, 818, 825,
       832, 838, 845, 851, 858, 865, 872, 878, 885, 892, 899, 906, 913, 920, 927, 934,
       941, 949, 956, 963, 970, 978, 985, 993, 1000 >>

AsinhTab ==
    << 0, 4, 8, 12, 16, 20, 24, 28, 32, 36, 40, 44, 48, 52, 56, 59,
       63, 67, 71, 74, 78, 81, 85, 88, 92, 95, 99, 102, 105, 109, 112, 115,
       118, 121, 124, 127, 130, 133, 136, 139, 142, 145, 147, 150, 153, 155, 158, 161,
       163, 166, 168, 171, 173, 175, 178, 180, 182, 185, 187, 189, 191, 194, 196, 198,
       200, 202, 204, 206, 208, 210, 212, 214, 216, 218, 220, 222, 223, 225, 227, 229,
       231, 232, 234, 236, 237, 239, 241, 242, 244, 246, 247, 249, 250, 252, 254, 255,
       257, 258, 260, 261, 263, 264, 265, 267, 268, 270, 271, 272, 274, 275, 276, 278,
       279, 280, 282, 283, 284, 286, 287, 288, 289, 291, 292, 293, 294, 295, 297, 298,
       299, 300, 301, 302, 304, 305, 306, 307, 308, 309, 310, 311, 312, 313, 314, 316,
       317, 318, 319, 320, 321, 322, 323, 324, 325, 326, 327, 328, 329, 330, 331, 332,
       333, 333, 334, 335, 336, 337, 338, 339, 340, 341, 342, 343, 343, 344, 345, 346,
       347, 348, 349, 350, 350, 351, 352, 353, 354, 355, 355, 356, 357, 358, 359, 359,
       360, 361, 362, 363, 363, 364, 365, 366, 366, 367, 368, 369, 370, 370, 371, 372,
       372, 373, 374, 375, 375, 376, 377, 378, 378, 379, 380, 380, 381, 382, 382, 383,
       384, 385, 385, 386, 387, 387, 388, 389, 389, 390, 391, 391, 392, 393, 393, 394,
       394, 395, 396, 396, 397, 398, 398, 399, 400, 400, 401, 401, 402, 403, 403, 404,
       404 >>

\* saturation 1.0, the last index of SinhTab
SAT_ONE == Len(SinhTab) - 1

\* k * sinh(norm) = 1.0 in the units of SinhTab
DEC_ONE == SinhTab[SAT_ONE + 1]

\* the chroma ratios of AsinhTab are multiples of 1 / ENC_GRID
ENC_GRID == 64

\* the top of the gamut over the warm hues (below 180 degrees) and over the
\* cool ones, at tone 50, in chroma units
GamutPeak(hq) == IF hq % HUE_FULL < HUE_HALF THEN 601 ELSE 203

\* Color("hct", [hq, c, tq]).convert(gamut).in_gamut()
in_gamut(hq, c, tq) ==
    LET t == Max2(0, Min2(TONE_MAX, tq))
    IN  c * (TONE_MAX \div 2) <= GamutPeak(hq) * Min2(t, TONE_MAX - t)

\* the largest chroma in gamut at (hq, tq), which the gamut fit maps to
FitChroma(hq, c, tq) ==
    LET t == Max2(0, Min2(TONE_MAX, tq))
        top == (GamutPeak(hq) * Min2(t, TONE_MAX - t)) \div (TONE_MAX \div 2)
    IN  Min2(Max2(0, c), top)

\* a colour string: "#rrggbb" in lower case, in upper case, or "#rgb"
HexForms == {"lower", "upper", "short"}

HexStr(form, col) == [form |-> form, col |-> col]

\* Color(hct...).convert(gamut).to_string(hex=True, fit=...): fit into the
\* gamut along the chroma axis, round to the grid, spell in lower case;
\* a colour without chroma has no hue
ToHexString(h, c, t) ==
    LET tq == Max2(0, Min2(TONE_MAX, RoundHalfEven(t[1], t[2])))
        hq == RoundHalfEven(h[1], h[2]) % HUE_FULL
        cf == FitChroma(hq, RoundHalfEven(c[1], c[2]), tq)
    IN  HexStr("lower", <<IF cf = 0 THEN 0 ELSE hq, cf, tq>>)

\* A.convert(gamut).to_string(hex=True, fit=...) for A = Color(a_hex)
Reconvert(a_hex) ==
    ToHexString(Frac(a_hex.col[1], 1), Frac(a_hex.col[2], 1), Frac(a_hex.col[3], 1))

\* a hue that always travels upwards from h1 to h2
short_arc_lerp_upwards(h1, h2, step, d) ==
    LET dh == (h2 - h1) % HUE_FULL
    IN  Frac((h1 * d + step * dh) % (HUE_FULL * d), d)

\* _short_arc_lerp(h1, h2, t) with t = i / d
_short_arc_lerp(h1, h2, step, d) ==
    LET dh == ((h2 - h1 + HUE_HALF) % HUE_FULL) - HUE_HALF
    IN  Frac((h1 * d + step * dh) % (HUE_FULL * d), d)

\* SatMapper.encode
SatEncode(c, cmax) ==
    IF cmax <= 0 THEN 0
    ELSE LET r == RoundHalfEven(Max2(0, c) * ENC_GRID, cmax)
         IN  AsinhTab[Min2(r, Len(AsinhTab) - 1) + 1]

\* a decode that takes a chroma-max of 0 for one unit
SatDecode_unit_cmax(s, cmax) ==
    LET s1 == IF s[1] <= 0 THEN 0
              ELSE IF s[1] >= SAT_ONE * s[2] THEN SAT_ONE
              ELSE RoundHalfEven(s[1], s[2])
    IN  Frac((IF cmax <= 0 THEN 1 ELSE cmax) * SinhTab[s1 + 1], DEC_ONE)

\* SatMapper.decode for s = num / den: the chroma as a fraction
SatDecode(s, cmax) ==
    LET s1 == IF s[1] <= 0 THEN 0
              ELSE IF s[1] >= SAT_ONE * s[2] THEN SAT_ONE
              ELSE RoundHalfEven(s[1], s[2])
    IN  Frac(cmax * SinhTab[s1 + 1], DEC_ONE)

\* the loop of _cmax_cached: k iterations left
RECURSIVE Bisect(_, _, _, _, _)
Bisect(lo, hi, k, hq, tq) ==
    IF k = 0 THEN lo
    ELSE LET mid == (lo + hi) \div 2
         IN  IF in_gamut(hq, mid, tq)
             THEN Bisect(mid, hi, k - 1, hq, tq)
             ELSE Bisect(lo, mid, k - 1, hq, tq)

\* _cmax_cached(gamut, cmax_hi, cmax_iters, hq, tq)
_cmax_cached(hq, tq) ==
    IF in_gamut(hq, CH_HI, tq) THEN CH_HI
    ELSE Bisect(0, CH_HI, Max2(1, CMAX_ITERS), hq, tq)

\* the key _cmax makes of a hue and a tone given as fractions
CmaxKey(h, t) == <<RoundHalfEven(h[1], h[2]), RoundHalfEven(t[1], t[2])>>

\* lru_cache(maxsize=16384)
CACHE_MAXSIZE == 16384

\* The cache of lru_cache is a dictionary and a list of its keys in the
\* order of their last use, oldest first.  The dictionary is kept for the
\* keys of the calls that are followed; the entries stored by calls with
\* other colours appear in the list only, a run of them as one item with
\* their number.
OTHER_KEYS == <<0 - 2, 0 - 2>>

LruItem(key) == [key |-> key, count |-> 1]

LruOthers(m) == [key |-> OTHER_KEYS, count |-> m]

\* the number of entries in the cache
RECURSIVE LruSize(_)
LruSize(order) == IF order = <<>> THEN 0 ELSE Head(order).count + LruSize(Tail(order))

\* the list without its k oldest entries
RECURSIVE DropOldest(_, _)
DropOldest(order, k) ==
    IF k = 0 \/ order = <<>> THEN order
    ELSE IF Head(order).count > k
         THEN <<[Head(order) EXCEPT !.count = @ - k]>> \o Tail(order)
         ELSE DropOldest(Tail(order), k - Head(order).count)

\* a hit moves the key to the recent end of the list
LruTouch(order, key) ==
    SelectSeq(order, LAMBDA it : it.key # key) \o <<LruItem(key)>>

\* a miss appends the key, the oldest entry making room in a full cache
LruInsert(order, key) ==
    Append(DropOldest(order, IF LruSize(order) >= CACHE_MAXSIZE THEN 1 ELSE 0), LruItem(key))

\* the keys of a list
LruKeys(order) == {order[k].key : k \in 1..Len(order)}

\* the cache c = [cache, order] after a call with this key: a hit renews
\* the key, a miss stores the result and, the cache being full, drops the
\* entry used longest ago
CachePut(c, key) ==
    IF \E e \in c.cache : e[1] = key
    THEN [cache |-> c.cache, order |-> LruTouch(c.order, key)]
    ELSE LET order == LruInsert(c.order, key)
         IN  [cache |-> {e \in c.cache : e[1] \in LruKeys(order)}
                          \cup {<<key, _cmax_cached(key[1], key[2])>>},
              order |-> order]

\* calls with other colours that store m entries under keys of their own
CacheOthers(c, m) ==
    LET room  == Max2(0, LruSize(c.order) + m - CACHE_MAXSIZE)
        kept  == DropOldest(c.order, room)
        order == IF kept # <<>> /\ kept[Len(kept)].key = OTHER_KEYS
                 THEN [kept EXCEPT ![Len(kept)].count = @ + m]
                 ELSE Append(kept, LruOthers(m))
    IN  [cache |-> {e \in c.cache : e[1] \in LruKeys(order)}, order |-> order]

\* a cache that tells its entries apart by the hue only
CacheGet_hue_only(cache, key) ==
    IF \E e \in cache : e[1] = key
    THEN (CHOOSE e \in cache : e[1][1] = key[1])[2]
    ELSE _cmax_cached(key[1], key[2])

\* what the call returns: the stored result on a hit, a fresh one on a miss
CacheGet(cache, key) ==
    IF \E e \in cache : e[1] = key
    THEN (CHOOSE e \in cache : e[1] = key)[2]
    ELSE _cmax_cached(key[1], key[2])

\* _clamp_t with clamp_tones = (2.0, 98.0)
_clamp_t(t) ==
    LET lo == 2 * TQ
        hi == 98 * TQ
    IN  IF t > hi THEN hi ELSE IF t < lo THEN lo ELSE t

\* _to_hct: the hue, chroma and tone of a colour; the hue of a colour
\* without chroma is 0 or NaN, depending on the coloraide release
_to_hct(a_hex) ==
    IF a_hex.col[2] = 0
    THEN {<<0, 0, a_hex.col[3]>>, <<NaN, 0, a_hex.col[3]>>}
    ELSE {a_hex.col}

\* a list with the endpoints left as the loop computed them
ForceEndpoints_none(out, a_hex, b_hex) == out

\* lines 132-137: out[0] and out[-1] are overwritten
ForceEndpoints(out, a_hex, b_hex) ==
    LET first == [out EXCEPT ![1] = Reconvert(a_hex)]
    IN  [first EXCEPT ![Len(first)] = Reconvert(b_hex)]

\* si < s_freeze, with s_freeze = 0.02, for si = num / den
IsFrozen(si) == 100 * si[1] < 2 * SAT_ONE * si[2]

\* a freeze that takes the hue of endpoint B from t > 0.5 on only
MixStepHue_late_snap(m, step) ==
    LET d  == m.n - 1
        Hi == _short_arc_lerp(m.a_h, m.b_h, step, d)
        si == Frac(m.sa * (d - step) + m.sb * step, d)
    IN  IF IsFrozen(si)
        THEN (IF 2 * step <= d THEN Frac(m.a_h, 1) ELSE Frac(m.b_h, 1))
        ELSE Hi

\* the value of hi after lines 113-120: the interpolated hue, or below
\* s_freeze the hue of the endpoint nearer in t
MixStepHue(m, step) ==
    LET d  == m.n - 1
        Hi == _short_arc_lerp(m.a_h, m.b_h, step, d)
        si == Frac(m.sa * (d - step) + m.sb * step, d)
    IN  IF IsFrozen(si)
        THEN (IF 2 * step < d THEN Frac(m.a_h, 1) ELSE Frac(m.b_h, 1))
        ELSE Hi

\* one pass of the loop body, lines 107-129, for a step of d = n - 1, with
\* the cache as it stands: the colour string and the keys looked up, in order
MixStepKeys(m, step) ==
    LET d  == m.n - 1
        Ti == Frac(m.t0 * (d - step) + m.t1 * step, d)
        Hi == _short_arc_lerp(m.a_h, m.b_h, step, d)
        si == Frac(m.sa * (d - step) + m.sb * step, d)
        frozen == IsFrozen(si)
        hf == MixStepHue(m, step)
    IN  IF frozen THEN <<CmaxKey(Hi, Ti), CmaxKey(hf, Ti)>> ELSE <<CmaxKey(Hi, Ti)>>

RECURSIVE CachePutAll(_, _)
CachePutAll(c, keys) ==
    IF keys = <<>> THEN c
    ELSE CachePutAll(CachePut(c, Head(keys)), Tail(keys))

MixStepHex(m, step, cache) ==
    LET d  == m.n - 1
        Ti == Frac(m.t0 * (d - step) + m.t1 * step, d)
        Hi == _short_arc_lerp(m.a_h, m.b_h, step, d)
        si == Frac(m.sa * (d - step) + m.sb * step, d)
        hi == MixStepHue(m, step)
        c_env == CacheGet(cache, CmaxKey(hi, Ti))
        ci == SatDecode(si, c_env)
    IN  ToHexString(hi, ci, Ti)

VARIABLES
    hct,         \* the frame of HCTMix.mix: its arguments, locals and result
    cmax_cache,  \* the entries of _cmax_cached's cache: <<key, value>>
    lru_order,   \* the keys of the cache in the order of their last use
    hct_calls,   \* the number of calls of mix so far
    other_calls  \* the number of runs of calls with other colours so far

hctVars == <<hct, cmax_cache, lru_order, hct_calls, other_calls>>

\* the cache as it stands
TheCache == [cache |-> cmax_cache, order |-> lru_order]

\* the cache becomes c
SetCache(c) == cmax_cache' = c.cache /\ lru_order' = c.order

MaxHctN == 4

MaxHctCalls == 2

NoReturn == [kind |-> "none", val |-> <<>>]

Returned(list) == [kind |-> "list", val |-> list]

RaisedValueError == [kind |-> "ValueError", val |-> <<>>]

HctIdle ==
    [ pc |-> "idle", a_hex |-> HexStr("lower", <<0, 0, 0>>), b_hex |-> HexStr("lower", <<0, 0, 0>>),
      n |-> 0, a_h |-> 0, a_c |-> 0, a_t |-> 0, b_h |-> 0, b_c |-> 0, b_t |-> 0,
      t0 |-> 0, t1 |-> 0, sa |-> 0, sb |-> 0, i |-> 0, hi |-> <<>>, looked_up |-> <<>>,
      out |-> <<>>, ret |-> NoReturn ]

\* the colours tried, as <<hue, chroma, tone>> on the grid: two greys (one
\* at tone 100, outside the clamp band), a warm colour on the gamut
\* boundary, a cool one whose chroma lies above the searched cmax, and two
\* colours on either side of hue 0, one of them at tone 99
GREY == <<0, 0, 50 * TQ>>

WHITE_HCT == <<0, 0, TONE_MAX>>

WARM == <<30 * HQ, 480, 60 * TQ>>

COOL == <<200 * HQ, 101, 25 * TQ>>

NEAR_360 == <<HUE_FULL - 1, 4, 99 * TQ>>

NEAR_0 == <<1, 30, 75 * TQ>>

\* two colours of different hue with little chroma: one encoded as
\* saturation 0, one as saturation s_freeze
FAINT_WARM == <<30 * HQ, 8, 50 * TQ>>

FAINT_COOL == <<200 * HQ, 1, 40 * TQ>>

HctPairs ==
    { <<HexStr("upper", GREY), HexStr("lower", WARM)>>,
      <<HexStr("lower", WARM), HexStr("short", COOL)>>,
      <<HexStr("lower", COOL), HexStr("lower", NEAR_360)>>,
      <<HexStr("upper", NEAR_360), HexStr("lower", NEAR_0)>>,
      <<HexStr("lower", WHITE_HCT), HexStr("upper", COOL)>>,
      <<HexStr("short", WARM), HexStr("short", WARM)>>,
      <<HexStr("lower", FAINT_COOL), HexStr("lower", FAINT_WARM)>> }

HctNs == 1..MaxHctN

HctInit ==
    /\ hct = HctIdle
    /\ cmax_cache = {}
    /\ lru_order = <<>>
    /\ hct_calls = 0
    /\ other_calls = 0

\* mix(), lines 87-105
HctStart(a_hex, b_hex, count) ==
    /\ hct.pc = "idle"
    /\ hct_calls < MaxHctCalls
    /\ hct_calls' = hct_calls + 1
    /\ UNCHANGED other_calls
    /\ LET frame == [HctIdle EXCEPT !.a_hex = a_hex, !.b_hex = b_hex, !.n = count] IN
       IF count < 2
       THEN /\ hct' = [frame EXCEPT !.pc = "done", !.ret = RaisedValueError]
            /\ UNCHANGED <<cmax_cache, lru_order>>
       ELSE \E A \in _to_hct(a_hex), B \in _to_hct(b_hex) :
              LET t0 == _clamp_t(A[3])
                  t1 == _clamp_t(B[3])
                  keyA == CmaxKey(Frac(A[1], 1), Frac(t0, 1))
                  keyB == CmaxKey(Frac(B[1], 1), Frac(t1, 1))
                  locals == [frame EXCEPT !.a_h = A[1], !.a_c = A[2], !.a_t = A[3],
                                          !.b_h = B[1], !.b_c = B[2], !.b_t = B[3],
                                          !.t0 = t0, !.t1 = t1]
              IN  IF A[1] = NaN
                  THEN \* round(nan) in _cmax(a_h, t0) raises ValueError
                       /\ hct' = [locals EXCEPT !.pc = "done", !.ret = RaisedValueError]
                       /\ UNCHANGED <<cmax_cache, lru_order>>
                  ELSE IF B[1] = NaN
                  THEN /\ hct' = [locals EXCEPT !.pc = "done", !.ret = RaisedValueError]
                       /\ SetCache(CachePut(TheCache, keyA))
                  ELSE /\ SetCache(CachePutAll(TheCache, <<keyA, keyB>>))
                       /\ hct' = [locals EXCEPT
                                    !.sa = SatEncode(A[2], CacheGet(cmax_cache, keyA)),
                                    !.sb = SatEncode(B[2], CacheGet(cmax_cache, keyB)),
                                    !.pc = "loop"]

\* one iteration of the loop, lines 106-130
HctStep ==
    /\ hct.pc = "loop"
    /\ hct.i < hct.n
    /\ SetCache(CachePutAll(TheCache, MixStepKeys(hct, hct.i)))
    /\ LET keys == MixStepKeys(hct, hct.i)
       IN  hct' = [hct EXCEPT !.hi = Append(@, MixStepHue(hct, hct.i)),
                              !.looked_up = Append(@, keys[Len(keys)]),
                              !.out = Append(@, MixStepHex(hct, hct.i, cmax_cache)),
                              !.i = @ + 1]
    /\ UNCHANGED <<hct_calls, other_calls>>

\* lines 132-138: the endpoints are overwritten and the list is returned
HctReturn ==
    /\ hct.pc = "loop"
    /\ hct.i = hct.n
    /\ LET out == ForceEndpoints(hct.out, hct.a_hex, hct.b_hex)
       IN  hct' = [hct EXCEPT !.out = out, !.ret = Returned(out), !.pc = "done"]
    /\ UNCHANGED <<cmax_cache, lru_order, hct_calls, other_calls>>

\* the call is over; the cache stays
HctFinish ==
    /\ hct.pc = "done"
    /\ hct' = HctIdle
    /\ UNCHANGED <<cmax_cache, lru_order, hct_calls, other_calls>>

\* Between two calls that are followed, the process mixes other colours:
\* the lookups of these calls store m entries under keys of their own.
MaxOtherCalls == 2

OtherBatches == {CACHE_MAXSIZE \div 2, CACHE_MAXSIZE}

OtherCalls(m) ==
    /\ hct.pc = "idle"
    /\ other_calls < MaxOtherCalls
    /\ other_calls' = other_calls + 1
    /\ SetCache(CacheOthers(TheCache, m))
    /\ UNCHANGED <<hct, hct_calls>>

(***************************************************************************)
(* Tonal ramp (hct_tone.py).  A tone of the ramp is counted in units of    *)
(* TONE_QUANT.  The tables hold round(T / TONE_QUANT) of the interior      *)
(* tones of the non-linear schedules, row d = n - 1, as the program        *)
(* computes them; gamma is counted in thousandths.                         *)
(***************************************************************************)
\* 1 / TONE_QUANT
TONE_UNITS == 10000

EaseToneTab ==
    << <<>>,
       <<500000>>,
       <<750000, 250000>>,
       <<853553, 500000, 146447>>,
       <<904508, 654508, 345492, 95492>>,
       <<933013, 750000, 500000, 250000, 66987>>,
       <<950484, 811745, 611260, 388740, 188255, 49516>> >>

ShadowToneTab ==
    << <<>>,
       <<607708>>,
       <<773073, 421535>>,
       <<846107, 607708, 321839>>,
       <<886135, 709744, 498231, 260103>>,
       <<910978, 773073, 607708, 421535, 218183>>,
       <<927703, 815707, 681411, 530216, 365068, 187877>> >>

HighlightToneTab ==
    << <<>>,
       <<392292>>,
       <<578465, 226927>>,
       <<678161, 392292, 153893>>,
       <<739897, 501769, 290256, 113865>>,
       <<781817, 578465, 392292, 226927, 89022>>,
       <<812123, 634932, 469784, 318589, 184293, 72297>> >>

\* the same for gamma <= 1.001 (g is floored at 1.001) and for gamma = 3.0
ShadowToneTabFloor ==
    << <<>>,
       <<500346>>,
       <<667033, 333604>>,
       <<750346, 500346, 250216>>,
       <<800322, 600366, 400306, 200178>>,
       <<833632, 667033, 500346, 333604, 166819>>,
       <<857421, 714643, 571792, 428891, 285955, 142989>> >>

ShadowToneTabCube ==
    << <<>>,
       <<875000>>,
       <<962963, 703704>>,
       <<984375, 875000, 578125>>,
       <<992000, 936000, 784000, 488000>>,
       <<995370, 962963, 875000, 703704, 421296>>,
       <<997085, 976676, 921283, 813411, 635569, 370262>> >>

HighlightToneTabFloor ==
    << <<>>,
       <<499654>>,
       <<666396, 332967>>,
       <<749784, 499654, 249654>>,
       <<799822, 599694, 399634, 199678>>,
       <<833181, 666396, 499654, 332967, 166368>>,
       <<857011, 714045, 571109, 428208, 285357, 142579>> >>

HighlightToneTabCube ==
    << <<>>,
       <<125000>>,
       <<296296, 37037>>,
       <<421875, 125000, 15625>>,
       <<512000, 216000, 64000, 8000>>,
       <<578704, 296296, 125000, 37037, 4630>>,
       <<629738, 364431, 186589, 78717, 23324, 2915>> >>

\* HCTTonal.gamma = 1.35
GAMMA_DEFAULT == 1350

\* g = max(1.001, float(gamma))
GAMMA_FLOOR == 1001

GAMMA_CUBE == 3000

\* the values of gamma tried: one below the floor, the default, 3.0
Gammas == {500, GAMMA_DEFAULT, GAMMA_CUBE}

Schedules == {"linear", "ease", "shadow", "highlight"}

\* _q: round(x / q) is given; clamp to [0, 100]
_q(r) == Max2(0, Min2(100 * TONE_UNITS, r))

\* round(T / q) for the interior sample j of n - 1 = d
\* interior tones computed as 100 * v instead of 100 * (1 - v)
ToneRounded_rising(schedule, j, d, gamma) ==
    LET g == Max2(GAMMA_FLOOR, gamma)
    IN  CASE schedule = "linear"    -> RoundHalfEven(100 * TONE_UNITS * j, d)
          [] schedule = "ease"      -> EaseToneTab[d][d - j]
          [] schedule = "shadow"    ->
                (CASE g = GAMMA_FLOOR   -> ShadowToneTabFloor
                   [] g = GAMMA_DEFAULT -> ShadowToneTab
                   [] g = GAMMA_CUBE    -> ShadowToneTabCube)[d][d - j]
          [] schedule = "highlight" ->
                (CASE g = GAMMA_FLOOR   -> HighlightToneTabFloor
                   [] g = GAMMA_DEFAULT -> HighlightToneTab
                   [] g = GAMMA_CUBE    -> HighlightToneTabCube)[d][d - j]

ToneRounded(schedule, j, d, gamma) ==
    LET g == Max2(GAMMA_FLOOR, gamma)
    IN  CASE schedule = "linear"    -> RoundHalfEven(100 * TONE_UNITS * (d - j), d)
          [] schedule = "ease"      -> EaseToneTab[d][j]
          [] schedule = "shadow"    ->
                (CASE g = GAMMA_FLOOR   -> ShadowToneTabFloor
                   [] g = GAMMA_DEFAULT -> ShadowToneTab
                   [] g = GAMMA_CUBE    -> ShadowToneTabCube)[d][j]
          [] schedule = "highlight" ->
                (CASE g = GAMMA_FLOOR   -> HighlightToneTabFloor
                   [] g = GAMMA_DEFAULT -> HighlightToneTab
                   [] g = GAMMA_CUBE    -> HighlightToneTabCube)[d][j]

\* a tone list without its two endpoints
tone_steps_interior_only(count, schedule, gamma) ==
    IF count < 3 THEN [ok |-> FALSE, tones |-> <<>>]
    ELSE IF schedule \notin Schedules THEN [ok |-> FALSE, tones |-> <<>>]
    ELSE [ok |-> TRUE,
          tones |-> [j \in 1..(count - 2) |-> _q(ToneRounded(schedule, j, count - 1, gamma))]]

\* a tone list that starts at the schedule's first interior tone and
\* repeats its last one, with no endpoint of its own
tone_steps_no_endpoints(count, schedule, gamma) ==
    IF count < 3 THEN [ok |-> FALSE, tones |-> <<>>]
    ELSE IF schedule \notin Schedules THEN [ok |-> FALSE, tones |-> <<>>]
    ELSE [ok |-> TRUE,
          tones |-> [j \in 1..count |->
                       _q(ToneRounded(schedule, Max2(1, Min2(count - 2, j - 1)), count - 1, gamma))]]

\* tone_steps(n, schedule=schedule, gamma=gamma): [ok |-> FALSE] is the
\* ValueError
tone_steps(count, schedule, gamma) ==
    IF count < 3 THEN [ok |-> FALSE, tones |-> <<>>]
    ELSE IF schedule \notin Schedules THEN [ok |-> FALSE, tones |-> <<>>]
    ELSE [ok |-> TRUE,
          tones |-> <<100 * TONE_UNITS>>
                    \o [j \in 1..(count - 2) |-> _q(ToneRounded(schedule, j, count - 1, gamma))]
                    \o <<0>>]

\* the spellings of a seed colour: those of HexForms, "rrggbb" without the
\* '#', " #rrggbb " with blanks around, and two strings that are no colour
SeedForms == HexForms \cup {"nohash", "padded", "empty", "invalid"}

\* _canon_hex: [ok |-> FALSE] is the ValueError
_canon_hex(s) ==
    IF s.form \in {"empty", "invalid"} THEN [ok |-> FALSE, hex |-> s]
    ELSE [ok |-> TRUE, hex |-> HexStr("lower", s.col)]

\* HCTTonal.schedule
DEFAULT_SCHEDULE == "ease"

\* schedule=None
None == "None"

\* the values Python takes for false in `schedule or self.schedule`: None
\* and the empty string
Falsy(x) == x \in {None, ""}

VARIABLES
    ramp         \* the frame of HCTTonal.ramp: its arguments, locals and result

toneVars == <<ramp>>

MaxRampN == 5

RampIdle ==
    [ pc |-> "idle", seed_hex |-> HexStr("lower", <<0, 0, 0>>), n |-> 0, schedule |-> None,
      self_schedule |-> DEFAULT_SCHEDULE, gamma |-> GAMMA_DEFAULT, used |-> None,
      seed |-> <<0, 0, 0>>, tones |-> <<>>, k |-> 1, out |-> <<>>, ret |-> NoReturn ]

SeedArgs ==
    { HexStr("upper", WARM), HexStr("nohash", COOL), HexStr("padded", GREY),
      HexStr("short", NEAR_360), HexStr("empty", <<0, 0, 0>>), HexStr("invalid", <<0, 0, 0>>) }

\* the schedule argument of ramp: a name, None (the default), the empty
\* string, or a name that is no schedule
ScheduleArgs == Schedules \cup {None, "", "bogus"}

\* HCTTonal.schedule: the default, or what tonal_ramp was given
SelfSchedules == {DEFAULT_SCHEDULE, "shadow", "", "bogus"}

RampNs == 2..MaxRampN

ToneInit == ramp = RampIdle

\* HCTTonal(schedule=self_schedule, gamma=gamma).ramp(seed_hex, n,
\* schedule=schedule), lines 89-93; tonal_ramp is the call with schedule
\* left at None
RampStart(seed_hex, count, self_schedule, schedule, gamma) ==
    /\ ramp.pc = "idle"
    /\ LET used  == IF Falsy(schedule) THEN self_schedule ELSE schedule
           frame == [RampIdle EXCEPT !.seed_hex = seed_hex, !.n = count, !.schedule = schedule,
                                     !.self_schedule = self_schedule, !.gamma = gamma]
           canon == _canon_hex(seed_hex)
           steps == tone_steps(count, used, gamma)
       IN  IF count < 3 \/ ~canon.ok \/ ~steps.ok
           THEN ramp' = [frame EXCEPT !.pc = "done", !.ret = RaisedValueError]
           ELSE ramp' = [frame EXCEPT !.pc = "loop", !.seed = canon.hex.col,
                                      !.used = used, !.tones = steps.tones]

\* seed.clone().set("t", T).convert(gamut).to_string(hex=True, fit=...)
RampHex(seed, T) ==
    ToHexString(Frac(seed[1], 1), Frac(seed[2], 1), Frac(T * TQ, TONE_UNITS))

\* one iteration of the loop, lines 94-101
RampStep ==
    /\ ramp.pc = "loop"
    /\ ramp.k <= Len(ramp.tones)
    /\ ramp' = [ramp EXCEPT !.out = Append(@, RampHex(ramp.seed, ramp.tones[ramp.k])),
                            !.k = @ + 1]

\* return out, line 102
RampReturn ==
    /\ ramp.pc = "loop"
    /\ ramp.k > Len(ramp.tones)
    /\ ramp' = [ramp EXCEPT !.ret = Returned(ramp.out), !.pc = "done"]

RampFinish ==
    /\ ramp.pc = "done"
    /\ ramp' = RampIdle

(***************************************************************************)
(* OkHSV hue interpolation (app.py, okhsv_interp).  A hue is a number of   *)
(* turns in [0, 1), as srgb_to_okhsv returns it, counted in steps of       *)
(* 1 / HUE_TURN; an interpolated hue is a fraction <<num, den>> of steps.  *)
(* The palette loop calls okhsv_interp once per step with t = i / (n - 1). *)
(***************************************************************************)
\* the hue steps of one turn (1.0)
HUE_TURN == 20

\* half a turn (0.5)
HUE_HALF_TURN == HUE_TURN \div 2

\* a hue travel that never wraps
OkhsvDh_unwrapped(h1, h2) == h2 - h1

\* dh = ((h2 - h1 + 0.5) % 1) - 0.5, line 201
OkhsvDh(h1, h2) == ((h2 - h1 + HUE_HALF_TURN) % HUE_TURN) - HUE_HALF_TURN

\* h = (h1 + dh * t) % 1.0 for t = step / d, line 202
OkhsvHue(h1, dh, step, d) == Frac((h1 * d + dh * step) % (HUE_TURN * d), d)

VARIABLES
    okhsv        \* the hues of a palette loop over okhsv_interp: the endpoints' hues, dh and h of each call

okhsvVars == <<okhsv>>

MaxOkD == 4

OkhsvIdle == [pc |-> "idle", h1 |-> 0, h2 |-> 0, d |-> 1, dh |-> <<>>, h |-> <<>>]

OkhsvHues == 0..(HUE_TURN - 1)

OkhsvInit == okhsv = OkhsvIdle

\* a palette of d + 1 steps between colours of hues h1 and h2 begins
OkhsvStart(h1, h2, d) ==
    /\ okhsv.pc = "idle"
    /\ okhsv' = [OkhsvIdle EXCEPT !.pc = "loop", !.h1 = h1, !.h2 = h2, !.d = d]

\* one call of okhsv_interp, lines 199-202, at step Len(okhsv.h)
OkhsvStep ==
    /\ okhsv.pc = "loop"
    /\ Len(okhsv.h) <= okhsv.d
    /\ LET dh == OkhsvDh(okhsv.h1, okhsv.h2)
       IN  okhsv' = [okhsv EXCEPT !.dh = Append(@, dh),
                                  !.h = Append(@, OkhsvHue(okhsv.h1, dh, Len(okhsv.h), okhsv.d))]

\* the palette is complete
OkhsvFinish ==
    /\ okhsv.pc = "loop"
    /\ Len(okhsv.h) = okhsv.d + 1
    /\ okhsv' = OkhsvIdle

(***************************************************************************)
(* The bisection of _cmax_cached, one iteration at a time                  *)
(* (hct_mixer.py lines 59-70), for a call that is not answered from the    *)
(* cache.                                                                  *)
(***************************************************************************)
\* an iteration that keeps the wrong half
BisectStep_wrong_half(lo, hi, hq, tq) ==
    LET mid == (lo + hi) \div 2
    IN  IF in_gamut(hq, mid, tq) THEN <<lo, mid>> ELSE <<mid, hi>>

\* lines 65-69: the new <<lo, hi>>
BisectStep(lo, hi, hq, tq) ==
    LET mid == (lo + hi) \div 2
    IN  IF in_gamut(hq, mid, tq) THEN <<mid, hi>> ELSE <<lo, mid>>

\* what _cmax_cached returns when called with cmax_iters = k
CmaxWithIters(k, hq, tq) ==
    IF in_gamut(hq, CH_HI, tq) THEN CH_HI
    ELSE Bisect(0, CH_HI, Max2(1, k), hq, tq)

VARIABLES
    bis          \* the frame of _cmax_cached: arguments, lo, hi, the pairs <<lo, hi>> so far, result

bisVars == <<bis>>

MaxBisIters == 8

BisIdle ==
    [ pc |-> "idle", hq |-> 0, tq |-> 0, cmax_iters |-> 0, iters |-> 0,
      lo |-> 0, hi |-> 0, trail |-> <<>>, ret |-> NoReturn ]

\* the hues and tones searched: both halves of the hue circle and the top
\* key 360.0; tones at and near the ends of the scale and in the middle
BisHues == {0, 30 * HQ, 200 * HQ, HUE_FULL}

BisTones == {0, 1, 2 * TQ, 25 * TQ, 50 * TQ, 60 * TQ, 98 * TQ, TONE_MAX}

BisInit == bis = BisIdle

\* lines 59-63
BisStart(hq, tq, cmax_iters) ==
    /\ bis.pc = "idle"
    /\ LET frame == [BisIdle EXCEPT !.hq = hq, !.tq = tq, !.cmax_iters = cmax_iters, !.hi = CH_HI]
       IN  IF in_gamut(hq, CH_HI, tq)
           THEN bis' = [frame EXCEPT !.pc = "done", !.ret = Returned(CH_HI)]
           ELSE bis' = [frame EXCEPT !.pc = "loop", !.lo = 0, !.iters = Max2(1, cmax_iters),
                                     !.trail = <<<<0, CH_HI>>>>]

\* one iteration of the loop, lines 64-69
BisStep ==
    /\ bis.pc = "loop"
    /\ Len(bis.trail) <= bis.iters
    /\ LET next == BisectStep(bis.lo, bis.hi, bis.hq, bis.tq)
       IN  bis' = [bis EXCEPT !.lo = next[1], !.hi = next[2], !.trail = Append(@, next)]

\* return lo, line 70
BisReturn ==
    /\ bis.pc = "loop"
    /\ Len(bis.trail) = bis.iters + 1
    /\ bis' = [bis EXCEPT !.pc = "done", !.ret = Returned(bis.lo)]

BisFinish ==
    /\ bis.pc = "done"
    /\ bis' = BisIdle

(***************************************************************************)
(* Concurrent calls of HCTMix.mix (hct_mixer.py).  The threads of one      *)
(* process share the cache of _cmax_cached.  A call of the cached function *)
(* is two steps of a thread: the lookup, and after a miss the bisection    *)
(* with the attempt to store its result, which lru_cache gives up when    *)
(* another thread has stored the key in the meantime.                      *)
(***************************************************************************)
VARIABLES
    thr,          \* the frame of mix in each thread
    thr_flushes   \* the number of runs of calls in further threads so far

thrVars == <<thr, thr_flushes>>

\* each thread calls mix once
Threads == {1, 2}

MaxThrN == 3

MaxThrFlushes == 1

NoKey == <<>>

NoLookup == [key |-> NoKey, val |-> 0, how |-> "none"]

\* fr: the locals of mix; key: the key a bisection is running for; got:
\* the result of the last call of _cmax, with the way it was found
ThrIdle == [pc |-> "idle", fr |-> HctIdle, key |-> NoKey, got |-> NoLookup]

\* a warm and a faint colour of one hue, and two faint colours that freeze
\* the hue
ThrPairs ==
    { <<HexStr("lower", WARM), HexStr("lower", FAINT_WARM)>>,
      <<HexStr("lower", FAINT_COOL), HexStr("lower", FAINT_WARM)>> }

\* a count that is rejected and the largest one
ThrNs == {1, MaxThrN}

ThrInit ==
    /\ thr = [t \in Threads |-> ThrIdle]
    /\ thr_flushes = 0

\* the key of the call of _cmax a thread has arrived at
ThrKey(f) ==
    CASE f.pc = "cmaxA"   -> CmaxKey(Frac(f.fr.a_h, 1), Frac(f.fr.t0, 1))
      [] f.pc = "cmaxB"   -> CmaxKey(Frac(f.fr.b_h, 1), Frac(f.fr.t1, 1))
      [] f.pc = "loop"    -> MixStepKeys(f.fr, f.fr.i)[1]
      [] f.pc = "refetch" -> MixStepKeys(f.fr, f.fr.i)[2]

\* lines 122-129: the colour of the step, from the chroma that _cmax gave
ThrEmit(f, key, v) ==
    [f EXCEPT !.fr.out = Append(@, MixStepHex(f.fr, f.fr.i, {<<key, v>>})),
              !.fr.i = @ + 1,
              !.pc = "loop"]

\* mix goes on with the value v that _cmax returned for the key
ThrResume(f, key, v, how) ==
    LET g == [f EXCEPT !.key = NoKey, !.got = [key |-> key, val |-> v, how |-> how]]
    IN  CASE f.pc = "cmaxA"   -> [g EXCEPT !.fr.sa = SatEncode(f.fr.a_c, v), !.pc = "cmaxB"]
          [] f.pc = "cmaxB"   -> [g EXCEPT !.fr.sb = SatEncode(f.fr.b_c, v), !.pc = "loop"]
          [] f.pc = "loop"    -> IF Len(MixStepKeys(f.fr, f.fr.i)) = 2
                                 THEN [g EXCEPT !.pc = "refetch"]
                                 ELSE ThrEmit(g, key, v)
          [] f.pc = "refetch" -> ThrEmit(g, key, v)

\* mix(), lines 87-99, in thread t
ThrStart(t, a_hex, b_hex, count) ==
    /\ thr[t].pc = "idle"
    /\ LET frame == [HctIdle EXCEPT !.a_hex = a_hex, !.b_hex = b_hex, !.n = count] IN
       IF count < 2
       THEN thr' = [thr EXCEPT ![t] = [ThrIdle EXCEPT !.pc = "done",
                                          !.fr = [frame EXCEPT !.ret = RaisedValueError]]]
       ELSE LET A == a_hex.col
                B == b_hex.col
            IN  thr' = [thr EXCEPT ![t] = [ThrIdle EXCEPT !.pc = "cmaxA",
                      !.fr = [frame EXCEPT !.a_h = A[1], !.a_c = A[2], !.a_t = A[3],
                                           !.b_h = B[1], !.b_c = B[2], !.b_t = B[3],
                                           !.t0 = _clamp_t(A[3]), !.t1 = _clamp_t(B[3])]]]
    /\ UNCHANGED <<hctVars, thr_flushes>>

\* thread t calls _cmax: a hit returns the stored value and renews the key,
\* a miss starts the bisection
ThrLookup(t) ==
    /\ thr[t].pc \in {"cmaxA", "cmaxB", "loop", "refetch"}
    /\ thr[t].key = NoKey
    /\ thr[t].pc = "loop" => thr[t].fr.i < thr[t].fr.n
    /\ LET key == ThrKey(thr[t]) IN
       IF \E e \in cmax_cache : e[1] = key
       THEN /\ SetCache(CachePut(TheCache, key))
            /\ thr' = [thr EXCEPT ![t] = ThrResume(@, key, CacheGet(cmax_cache, key), "hit")]
       ELSE /\ thr' = [thr EXCEPT ![t].key = key]
            /\ UNCHANGED <<cmax_cache, lru_order>>
    /\ UNCHANGED <<hct, hct_calls, other_calls, thr_flushes>>

\* the bisection of thread t ends: its result is stored unless the key has
\* been stored in the meantime, and returned
ThrStore(t) ==
    /\ thr[t].key # NoKey
    /\ LET key == thr[t].key IN
         /\ IF \E e \in cmax_cache : e[1] = key
            THEN UNCHANGED <<cmax_cache, lru_order>>
            ELSE SetCache(CachePut(TheCache, key))
         /\ thr' = [thr EXCEPT ![t] = ThrResume(@, key, _cmax_cached(key[1], key[2]), "miss")]
    /\ UNCHANGED <<hct, hct_calls, other_calls, thr_flushes>>

\* lines 132-138 in thread t
ThrReturn(t) ==
    /\ thr[t].pc = "loop"
    /\ thr[t].key = NoKey
    /\ thr[t].fr.i = thr[t].fr.n
    /\ LET out == ForceEndpoints(thr[t].fr.out, thr[t].fr.a_hex, thr[t].fr.b_hex)
       IN  thr' = [thr EXCEPT ![t].fr.out = out, ![t].fr.ret = Returned(out), ![t].pc = "done"]
    /\ UNCHANGED <<hctVars, thr_flushes>>

\* calls with other colours in further threads store m entries
ThrOthers(m) ==
    /\ thr_flushes < MaxThrFlushes
    /\ thr_flushes' = thr_flushes + 1
    /\ SetCache(CacheOthers(TheCache, m))
    /\ UNCHANGED <<hct, hct_calls, other_calls, thr>>

(***************************************************************************)
(* The transfer-curve tables under the threaded server (app.py).  Each of  *)
(* _srgb_forward_lut and _srgb_inverse_lut is a function without arguments *)
(* under lru_cache(None): a call looks the table up, and after a miss      *)
(* builds it and stores it, whatever has been stored in the meantime.      *)
(* app.run(threaded=True) handles every request in a thread of its own;    *)
(* nothing calls the two functions before the first request.               *)
(***************************************************************************)
VARIABLES
    lut_cache,    \* per table: 0 before it is stored, else the build stored
    lut_builds,   \* per table: the number of times it has been built
    lut_req,      \* per thread: the /mix request it handles
    lut_requests  \* the number of requests taken so far

lutVars == <<lut_cache, lut_builds, lut_req, lut_requests>>

Tables == {"forward", "inverse"}

LutThreads == {1, 2}

MaxLutRequests == 2

\* the tables one step of the loop calls for, in order: srgb_to_linear of
\* a and of b, then linear_to_srgb
TableCalls(algorithm) ==
    IF algorithm \in {"linear", "oklab", "okhsv"}
    THEN <<"forward", "forward", "inverse">>
    ELSE <<>>

LutAlgos == {"srgb", "linear", "oklab", "okhsv"}

\* step: the loop index; calls: the tables the step has still to call for;
\* used: the build of the table the thread used last
LutIdle == [pc |-> "idle", algorithm |-> "srgb", step |-> 0, calls |-> <<>>, used |-> 0]

LutInit ==
    /\ lut_cache = [T \in Tables |-> 0]
    /\ lut_builds = [T \in Tables |-> 0]
    /\ lut_req = [t \in LutThreads |-> LutIdle]
    /\ lut_requests = 0

\* a thread takes a request for N_MIN colours
LutRequest(t, algorithm) ==
    /\ lut_req[t].pc = "idle"
    /\ lut_requests < MaxLutRequests
    /\ lut_requests' = lut_requests + 1
    /\ lut_req' = [lut_req EXCEPT ![t] =
                     [LutIdle EXCEPT !.pc = "run", !.algorithm = algorithm,
                                     !.calls = TableCalls(algorithm)]]
    /\ UNCHANGED <<lut_cache, lut_builds>>

\* the thread calls the function of the next table: a hit returns the table
\* stored, a miss starts the function
LutCall(t) ==
    /\ lut_req[t].pc = "run"
    /\ lut_req[t].calls # <<>>
    /\ LET T == Head(lut_req[t].calls) IN
       IF lut_cache[T] # 0
       THEN lut_req' = [lut_req EXCEPT ![t].calls = Tail(@), ![t].used = lut_cache[T]]
       ELSE lut_req' = [lut_req EXCEPT ![t].pc = "build"]
    /\ UNCHANGED <<lut_cache, lut_builds, lut_requests>>

\* the function returns a new table, which lru_cache stores under the key
LutBuilt(t) ==
    /\ lut_req[t].pc = "build"
    /\ LET T == Head(lut_req[t].calls) IN
         /\ lut_builds' = [lut_builds EXCEPT ![T] = @ + 1]
         /\ lut_cache' = [lut_cache EXCEPT ![T] = lut_builds[T] + 1]
         /\ lut_req' = [lut_req EXCEPT ![t].pc = "run", ![t].calls = Tail(@),
                                       ![t].used = lut_builds[T] + 1]
    /\ UNCHANGED lut_requests

\* the colour of the step is appended; the loop goes on or the palette is
\* returned
LutStepEnd(t) ==
    /\ lut_req[t].pc = "run"
    /\ lut_req[t].calls = <<>>
    /\ IF lut_req[t].step + 1 < N_MIN
       THEN lut_req' = [lut_req EXCEPT ![t].step = @ + 1,
                                       ![t].calls = TableCalls(lut_req[t].algorithm)]
       ELSE lut_req' = [lut_req EXCEPT ![t].pc = "done"]
    /\ UNCHANGED <<lut_cache, lut_builds, lut_requests>>

\* the response is sent; the thread ends
LutFinish(t) ==
    /\ lut_req[t].pc = "done"
    /\ lut_req' = [lut_req EXCEPT ![t] = LutIdle]
    /\ UNCHANGED <<lut_cache, lut_builds, lut_requests>>

(***************************************************************************)
(* SatMapper at one step of HCTMix.mix (hct_mixer.py): the chroma-max of   *)
(* a hue and a tone, the saturation of a chroma under it and the chroma    *)
(* of a saturation under it.  The tones tried include 0 and 100, which a   *)
(* mixer with clamp_tones = (0, 100) reaches and where nothing but grey    *)
(* is in gamut.                                                            *)
(***************************************************************************)
VARIABLES sat

satVars == <<sat>>

SatIdle == [pc |-> "idle", hq |-> 0, tq |-> 0, c |-> 0, s |-> 0,
            c_env |-> 0, enc |-> 0, dec |-> <<0, 1>>]

SatHues == {0, 30 * HQ, 200 * HQ}

SatTones == {0, 1, 2 * TQ, 50 * TQ, 98 * TQ, TONE_MAX}

\* chromas, one of them negative
SatChromas == {0 - 4, 0, 8, 480}

\* saturations in the units of SinhTab, below 0 and above 1.0 among them
SatLevels == {0 - 1, 0, 1, SAT_ONE \div 2, SAT_ONE, SAT_ONE + 1}

SatInit == sat = SatIdle

SatStart(hq, tq, c, s) ==
    /\ sat.pc = "idle"
    /\ sat' = [SatIdle EXCEPT !.pc = "cmax", !.hq = hq, !.tq = tq, !.c = c, !.s = s]

\* c_env = self._cmax(hi, Ti)
SatCmax ==
    /\ sat.pc = "cmax"
    /\ sat' = [sat EXCEPT !.c_env = _cmax_cached(sat.hq, sat.tq), !.pc = "encode"]

\* sat_map.encode(c, c_env)
SatEncodeStep ==
    /\ sat.pc = "encode"
    /\ sat' = [sat EXCEPT !.enc = SatEncode(sat.c, sat.c_env), !.pc = "decode"]

\* ci = sat_map.decode(si, c_env)
SatDecodeStep ==
    /\ sat.pc = "decode"
    /\ sat' = [sat EXCEPT !.dec = SatDecode(Frac(sat.s, 1), sat.c_env), !.pc = "done"]

SatFinish ==
    /\ sat.pc = "done"
    /\ sat' = SatIdle

(***************************************************************************)
(* The two short-arc hue formulas taken in both directions:                *)
(* _short_arc_lerp (hct_mixer.py) on the hue grid and the hue lines of     *)
(* okhsv_interp (app.py) in steps of 1 / HUE_TURN of a turn.  For a pair   *)
(* of hues and t = i / d the frame holds the hue of (h1, h2, t) and the    *)
(* hue of (h2, h1, 1 - t).                                                 *)
(***************************************************************************)
VARIABLES arc

arcVars == <<arc>>

MaxArcD == 3

ArcKinds == {"hct", "okhsv"}

\* hues that include pairs half a turn apart and pairs across hue 0
ArcHues(kind) ==
    IF kind = "hct"
    THEN {0, 1, 30 * HQ, 180 * HQ, 210 * HQ, HUE_FULL - 1}
    ELSE {0, 1, 3, HUE_HALF_TURN, HUE_HALF_TURN + 3, HUE_TURN - 1}

\* d = ((h2 - h1 + 180.0) % 360.0) - 180.0, line 30
ShortArcTravel(h1, h2) == ((h2 - h1 + HUE_HALF) % HUE_FULL) - HUE_HALF

\* the signed travel from h1 to h2 of a formula
ArcTravel(kind, h1, h2) ==
    IF kind = "hct" THEN ShortArcTravel(h1, h2) ELSE OkhsvDh(h1, h2)

\* the hue of a formula at t = step / d
ArcHue(kind, h1, h2, step, d) ==
    IF kind = "hct" THEN _short_arc_lerp(h1, h2, step, d)
    ELSE OkhsvHue(h1, OkhsvDh(h1, h2), step, d)

ArcIdle == [pc |-> "idle", kind |-> "hct", h1 |-> 0, h2 |-> 0, d |-> 1,
            travel |-> <<0, 0>>, fwd |-> <<>>, bwd |-> <<>>]

ArcInit == arc = ArcIdle

ArcStart(kind, h1, h2, d) ==
    /\ arc.pc = "idle"
    /\ arc' = [ArcIdle EXCEPT !.pc = "loop", !.kind = kind, !.h1 = h1, !.h2 = h2, !.d = d,
                              !.travel = <<ArcTravel(kind, h1, h2), ArcTravel(kind, h2, h1)>>]

\* the next t: the formula is called as (h1, h2, t) and as (h2, h1, 1 - t)
ArcStep ==
    /\ arc.pc = "loop"
    /\ Len(arc.fwd) <= arc.d
    /\ LET step == Len(arc.fwd)
       IN  arc' = [arc EXCEPT
                     !.fwd = Append(@, ArcHue(arc.kind, arc.h1, arc.h2, step, arc.d)),
                     !.bwd = Append(@, ArcHue(arc.kind, arc.h2, arc.h1, arc.d - step, arc.d))]

ArcEnd ==
    /\ arc.pc = "loop"
    /\ Len(arc.fwd) = arc.d + 1
    /\ arc' = [arc EXCEPT !.pc = "done"]

ArcFinish ==
    /\ arc.pc = "done"
    /\ arc' = ArcIdle

(***************************************************************************)
(* Specifications.  The four operations share no state, so each is         *)
(* followed on its own; SpecPalettes follows the three that return a       *)
(* palette, taking the /mix requests and the ramps before the first call   *)
(* of the HCT mixer has filled the cache.                                  *)
(***************************************************************************)
vars == <<mixVars, kmVars, hctVars, toneVars, okhsvVars, bisVars, thrVars, lutVars, satVars, arcVars>>

Init == MixInit /\ KmInit /\ HctInit /\ ToneInit /\ OkhsvInit /\ BisInit /\ ThrInit /\ LutInit /\ SatInit /\ ArcInit

NoOperationRunning ==
    /\ pc = "idle"
    /\ km_pc = "idle"
    /\ hct.pc = "idle"
    /\ ramp.pc = "idle"

Next ==
    \/ (pc = "idle" /\ \E a \in HexArgs, b \in HexArgs, al \in AlgoArgs, nn \in NArgs :
                            Request(a, b, al, nn))
          /\ UNCHANGED <<kmVars, hctVars, toneVars, okhsvVars, bisVars, thrVars, lutVars, satVars, arcVars>>
    \/ Step /\ UNCHANGED <<kmVars, hctVars, toneVars, okhsvVars, bisVars, thrVars, lutVars, satVars, arcVars>>
    \/ Return /\ UNCHANGED <<kmVars, hctVars, toneVars, okhsvVars, bisVars, thrVars, lutVars, satVars, arcVars>>
    \/ Finish /\ UNCHANGED <<kmVars, hctVars, toneVars, okhsvVars, bisVars, thrVars, lutVars, satVars, arcVars>>

\* the /mix handler
Spec == Init /\ [][Next]_vars

NextKM ==
    \/ (km_pc = "idle" /\ \E a \in KmColours, b \in KmColours, d \in KmDs : KmStart(a, b, d))
          /\ UNCHANGED <<mixVars, hctVars, toneVars, okhsvVars, bisVars, thrVars, lutVars, satVars, arcVars>>
    \/ KmStep /\ UNCHANGED <<mixVars, hctVars, toneVars, okhsvVars, bisVars, thrVars, lutVars, satVars, arcVars>>
    \/ KmEnd /\ UNCHANGED <<mixVars, hctVars, toneVars, okhsvVars, bisVars, thrVars, lutVars, satVars, arcVars>>
    \/ KmFinish /\ UNCHANGED <<mixVars, hctVars, toneVars, okhsvVars, bisVars, thrVars, lutVars, satVars, arcVars>>

\* the Kubelka-Munk mixer
SpecKM == Init /\ [][NextKM]_vars

NextHCT ==
    \/ (hct.pc = "idle" /\ \E p \in HctPairs, count \in HctNs : HctStart(p[1], p[2], count))
          /\ UNCHANGED <<mixVars, kmVars, toneVars, okhsvVars, bisVars, thrVars, lutVars, satVars, arcVars>>
    \/ HctStep /\ UNCHANGED <<mixVars, kmVars, toneVars, okhsvVars, bisVars, thrVars, lutVars, satVars, arcVars>>
    \/ HctReturn /\ UNCHANGED <<mixVars, kmVars, toneVars, okhsvVars, bisVars, thrVars, lutVars, satVars, arcVars>>
    \/ HctFinish /\ UNCHANGED <<mixVars, kmVars, toneVars, okhsvVars, bisVars, thrVars, lutVars, satVars, arcVars>>

\* the HCT mixer
SpecHCT == Init /\ [][NextHCT]_vars

NextCache ==
    \/ (hct.pc = "idle" /\ \E p \in HctPairs, count \in HctNs : HctStart(p[1], p[2], count))
          /\ UNCHANGED <<mixVars, kmVars, toneVars, okhsvVars, bisVars, thrVars, lutVars, satVars, arcVars>>
    \/ HctStep /\ UNCHANGED <<mixVars, kmVars, toneVars, okhsvVars, bisVars, thrVars, lutVars, satVars, arcVars>>
    \/ HctReturn /\ UNCHANGED <<mixVars, kmVars, toneVars, okhsvVars, bisVars, thrVars, lutVars, satVars, arcVars>>
    \/ HctFinish /\ UNCHANGED <<mixVars, kmVars, toneVars, okhsvVars, bisVars, thrVars, lutVars, satVars, arcVars>>
    \/ (hct.pc = "idle" /\ \E m \in OtherBatches : OtherCalls(m))
          /\ UNCHANGED <<mixVars, kmVars, toneVars, okhsvVars, bisVars, thrVars, lutVars, satVars, arcVars>>

\* the HCT mixer in a process that mixes many colours
SpecCache == Init /\ [][NextCache]_vars

NextThreads ==
    \/ (\E t \in Threads, p \in ThrPairs, count \in ThrNs : ThrStart(t, p[1], p[2], count))
          /\ UNCHANGED <<mixVars, kmVars, toneVars, okhsvVars, bisVars, lutVars, satVars, arcVars>>
    \/ (\E t \in Threads : ThrLookup(t))
          /\ UNCHANGED <<mixVars, kmVars, toneVars, okhsvVars, bisVars, lutVars, satVars, arcVars>>
    \/ (\E t \in Threads : ThrStore(t))
          /\ UNCHANGED <<mixVars, kmVars, toneVars, okhsvVars, bisVars, lutVars, satVars, arcVars>>
    \/ (\E t \in Threads : ThrReturn(t))
          /\ UNCHANGED <<mixVars, kmVars, toneVars, okhsvVars, bisVars, lutVars, satVars, arcVars>>
    \/ (thr_flushes < MaxThrFlushes /\ ThrOthers(CACHE_MAXSIZE))
          /\ UNCHANGED <<mixVars, kmVars, toneVars, okhsvVars, bisVars, lutVars, satVars, arcVars>>

\* the HCT mixer called from the threads of one process
SpecThreads == Init /\ [][NextThreads]_vars

NextLut ==
    \/ (lut_requests < MaxLutRequests
          /\ \E t \in LutThreads, al \in LutAlgos : LutRequest(t, al))
          /\ UNCHANGED <<mixVars, kmVars, hctVars, toneVars, okhsvVars, bisVars, thrVars, satVars, arcVars>>
    \/ (\E t \in LutThreads : LutCall(t))
          /\ UNCHANGED <<mixVars, kmVars, hctVars, toneVars, okhsvVars, bisVars, thrVars, satVars, arcVars>>
    \/ (\E t \in LutThreads : LutBuilt(t))
          /\ UNCHANGED <<mixVars, kmVars, hctVars, toneVars, okhsvVars, bisVars, thrVars, satVars, arcVars>>
    \/ (\E t \in LutThreads : LutStepEnd(t))
          /\ UNCHANGED <<mixVars, kmVars, hctVars, toneVars, okhsvVars, bisVars, thrVars, satVars, arcVars>>
    \/ (\E t \in LutThreads : LutFinish(t))
          /\ UNCHANGED <<mixVars, kmVars, hctVars, toneVars, okhsvVars, bisVars, thrVars, satVars, arcVars>>

\* the transfer-curve tables under the threaded server
SpecLut == Init /\ [][NextLut]_vars

NextSat ==
    \/ (sat.pc = "idle"
          /\ \E hq \in SatHues, tq \in SatTones, c \in SatChromas, s \in SatLevels :
                SatStart(hq, tq, c, s))
          /\ UNCHANGED <<mixVars, kmVars, hctVars, toneVars, okhsvVars, bisVars, thrVars, lutVars, arcVars>>
    \/ SatCmax /\ UNCHANGED <<mixVars, kmVars, hctVars, toneVars, okhsvVars, bisVars, thrVars, lutVars, arcVars>>
    \/ SatEncodeStep /\ UNCHANGED <<mixVars, kmVars, hctVars, toneVars, okhsvVars, bisVars, thrVars, lutVars, arcVars>>
    \/ SatDecodeStep /\ UNCHANGED <<mixVars, kmVars, hctVars, toneVars, okhsvVars, bisVars, thrVars, lutVars, arcVars>>
    \/ SatFinish /\ UNCHANGED <<mixVars, kmVars, hctVars, toneVars, okhsvVars, bisVars, thrVars, lutVars, arcVars>>

\* SatMapper under the chroma-max of a step
SpecSat == Init /\ [][NextSat]_vars

NextArc ==
    \/ (arc.pc = "idle"
          /\ \E kind \in ArcKinds, d \in 1..MaxArcD :
                \E h1 \in ArcHues(kind), h2 \in ArcHues(kind) : ArcStart(kind, h1, h2, d))
          /\ UNCHANGED <<mixVars, kmVars, hctVars, toneVars, okhsvVars, bisVars, thrVars, lutVars, satVars>>
    \/ ArcStep /\ UNCHANGED <<mixVars, kmVars, hctVars, toneVars, okhsvVars, bisVars, thrVars, lutVars, satVars>>
    \/ ArcEnd /\ UNCHANGED <<mixVars, kmVars, hctVars, toneVars, okhsvVars, bisVars, thrVars, lutVars, satVars>>
    \/ ArcFinish /\ UNCHANGED <<mixVars, kmVars, hctVars, toneVars, okhsvVars, bisVars, thrVars, lutVars, satVars>>

\* the short-arc hue formulas in both directions
SpecArc == Init /\ [][NextArc]_vars

NextTone ==
    \/ (ramp.pc = "idle"
          /\ \E s \in SeedArgs, count \in RampNs, own \in SelfSchedules, sch \in ScheduleArgs,
                g \in Gammas : RampStart(s, count, own, sch, g))
          /\ UNCHANGED <<mixVars, kmVars, hctVars, okhsvVars, bisVars, thrVars, lutVars, satVars, arcVars>>
    \/ RampStep /\ UNCHANGED <<mixVars, kmVars, hctVars, okhsvVars, bisVars, thrVars, lutVars, satVars, arcVars>>
    \/ RampReturn /\ UNCHANGED <<mixVars, kmVars, hctVars, okhsvVars, bisVars, thrVars, lutVars, satVars, arcVars>>
    \/ RampFinish /\ UNCHANGED <<mixVars, kmVars, hctVars, okhsvVars, bisVars, thrVars, lutVars, satVars, arcVars>>

\* the tonal ramp
SpecTone == Init /\ [][NextTone]_vars

NextPalettes ==
    \/ (NoOperationRunning /\ hct_calls = 0
          /\ \E a \in HexArgs, b \in HexArgs, al \in AlgoArgs, nn \in NArgs : Request(a, b, al, nn))
          /\ UNCHANGED <<kmVars, hctVars, toneVars, okhsvVars, bisVars, thrVars, lutVars, satVars, arcVars>>
    \/ Step /\ UNCHANGED <<kmVars, hctVars, toneVars, okhsvVars, bisVars, thrVars, lutVars, satVars, arcVars>>
    \/ Return /\ UNCHANGED <<kmVars, hctVars, toneVars, okhsvVars, bisVars, thrVars, lutVars, satVars, arcVars>>
    \/ Finish /\ UNCHANGED <<kmVars, hctVars, toneVars, okhsvVars, bisVars, thrVars, lutVars, satVars, arcVars>>
    \/ (NoOperationRunning /\ hct_calls = 0
          /\ \E s \in SeedArgs, count \in RampNs, own \in SelfSchedules, sch \in ScheduleArgs,
                g \in Gammas : RampStart(s, count, own, sch, g))
          /\ UNCHANGED <<mixVars, kmVars, hctVars, okhsvVars, bisVars, thrVars, lutVars, satVars, arcVars>>
    \/ RampStep /\ UNCHANGED <<mixVars, kmVars, hctVars, okhsvVars, bisVars, thrVars, lutVars, satVars, arcVars>>
    \/ RampReturn /\ UNCHANGED <<mixVars, kmVars, hctVars, okhsvVars, bisVars, thrVars, lutVars, satVars, arcVars>>
    \/ RampFinish /\ UNCHANGED <<mixVars, kmVars, hctVars, okhsvVars, bisVars, thrVars, lutVars, satVars, arcVars>>
    \/ (NoOperationRunning
          /\ \E p \in HctPairs, count \in HctNs : HctStart(p[1], p[2], count))
          /\ UNCHANGED <<mixVars, kmVars, toneVars, okhsvVars, bisVars, thrVars, lutVars, satVars, arcVars>>
    \/ HctStep /\ UNCHANGED <<mixVars, kmVars, toneVars, okhsvVars, bisVars, thrVars, lutVars, satVars, arcVars>>
    \/ HctReturn /\ UNCHANGED <<mixVars, kmVars, toneVars, okhsvVars, bisVars, thrVars, lutVars, satVars, arcVars>>
    \/ HctFinish /\ UNCHANGED <<mixVars, kmVars, toneVars, okhsvVars, bisVars, thrVars, lutVars, satVars, arcVars>>

\* /mix, HCTMix.mix and HCTTonal.ramp
SpecPalettes == Init /\ [][NextPalettes]_vars

NextOkhsv ==
    \/ (okhsv.pc = "idle"
          /\ \E h1 \in OkhsvHues, h2 \in OkhsvHues, d \in 1..MaxOkD : OkhsvStart(h1, h2, d))
          /\ UNCHANGED <<mixVars, kmVars, hctVars, toneVars, bisVars, thrVars, lutVars, satVars, arcVars>>
    \/ OkhsvStep /\ UNCHANGED <<mixVars, kmVars, hctVars, toneVars, bisVars, thrVars, lutVars, satVars, arcVars>>
    \/ OkhsvFinish /\ UNCHANGED <<mixVars, kmVars, hctVars, toneVars, bisVars, thrVars, lutVars, satVars, arcVars>>

\* the hue arithmetic of the OkHSV mixer
SpecOkhsv == Init /\ [][NextOkhsv]_vars

NextBisect ==
    \/ (bis.pc = "idle"
          /\ \E hq \in BisHues, tq \in BisTones, k \in 0..MaxBisIters : BisStart(hq, tq, k))
          /\ UNCHANGED <<mixVars, kmVars, hctVars, toneVars, okhsvVars, thrVars, lutVars, satVars, arcVars>>
    \/ BisStep /\ UNCHANGED <<mixVars, kmVars, hctVars, toneVars, okhsvVars, thrVars, lutVars, satVars, arcVars>>
    \/ BisReturn /\ UNCHANGED <<mixVars, kmVars, hctVars, toneVars, okhsvVars, thrVars, lutVars, satVars, arcVars>>
    \/ BisFinish /\ UNCHANGED <<mixVars, kmVars, hctVars, toneVars, okhsvVars, thrVars, lutVars, satVars, arcVars>>

\* the chroma bisection
SpecBisect == Init /\ [][NextBisect]_vars

(***************************************************************************)
(* Properties of km_mix, checked under SpecKM.                             *)
(***************************************************************************)
RED == <<255, 0, 0>>

WHITE == <<255, 255, 255>>

\* the luma of test_monotonic_luminance_with_white, times 10000
Luma(c) == 2126 * c[1] + 7152 * c[2] + 722 * c[3]

C3_KmSymmetry ==
    \A k \in 1..Len(km_seq) :
        km_seq[k] = km_mix(km_b, km_a, km_d - (k - 1), km_d)

\* a sweep between colours of different luminance, at a t other than 0, 1/2, 1
C3_Witness ==
    /\ km_pc = "done"
    /\ _luminance(_srgb_to_R(km_a)) # _luminance(_srgb_to_R(km_b))
    /\ km_d = 3
    /\ km_seq[2] # km_seq[3]
    /\ km_seq[2] = km_mix(km_b, km_a, 2, 3)

UnknownAlgo == pc # "idle" /\ ArgGet(args.algo, DEFAULT_ALGO) \notin INTERPOLATORS

\* C8: a request whose algorithm key is not registered is answered with one
\* error response and no palette; no interpolator is called and the request
\* is not served under another key.
C8_UnknownAlgoRejected ==
    UnknownAlgo =>
        /\ pc = "done"
        /\ Len(resp) = 1
        /\ resp[1].kind = "error"
        /\ calls = <<>>
        /\ palette = <<>>
        /\ algo = ArgGet(args.algo, DEFAULT_ALGO)

\* a request with well-formed colours, a usable step count and an
\* unregistered key, answered 400
C8_Witness ==
    /\ UnknownAlgo
    /\ algo = "hct"
    /\ args.a = Absent
    /\ args.n = Str(<<"3">>)
    /\ resp = <<Error(400)>>

\* exactly six hexadecimal digits after the optional leading '#'
WellFormedHex(s) ==
    LET t == IF s # <<>> /\ Head(s) = "#" THEN Tail(s) ELSE s
    IN  Len(t) = 6 /\ \A k \in 1..6 : IsHexDigit(t[k])

\* C9: a request in which colour a or colour b is not exactly six
\* hexadecimal digits after the optional '#' fails as a whole: one error
\* response, no palette, no interpolator called.
C9_MalformedHexRejected ==
    ( /\ pc # "idle"
      /\ \/ ~WellFormedHex(ArgGet(args.a, DEFAULT_A))
         \/ ~WellFormedHex(ArgGet(args.b, DEFAULT_B)) )
    => /\ pc = "done"
       /\ Len(resp) = 1
       /\ resp[1].kind = "error"
       /\ calls = <<>>
       /\ palette = <<>>

\* the interpolator has raised: it was called once more than it returned
InterpolatorRaised == pc = "done" /\ Len(calls) > Len(palette)

\* C10: when the interpolator raises at step i the request ends with exactly
\* one error response that carries no colour; the interpolator was called
\* once for each of the steps 0..i in order, so step i was not retried and
\* no later step was run.
C10_RaiseIsSingleFailure ==
    InterpolatorRaised =>
        /\ Len(resp) = 1
        /\ resp[1].kind = "error"
        /\ resp[1].body = <<>>
        /\ Len(calls) = Len(palette) + 1
        /\ \A k \in 1..Len(calls) : calls[k] = k - 1
        /\ i = Len(palette)

\* the CAM16-UCS mixer raising at the third step, after two colours
C10_Witness ==
    /\ InterpolatorRaised
    /\ algo = "cam16ucs"
    /\ Len(palette) = 2
    /\ calls = <<0, 1, 2>>
    /\ resp = <<Error(500)>>

(***************************************************************************)
(* Properties of the HCT mixer, checked under SpecHCT.                     *)
(***************************************************************************)
\* mix has returned a list
HctReturned == hct.pc = "done" /\ hct.ret.kind = "list"

\* C1: for all endpoints a, b and every n >= 2 the list mix returns starts
\* with the direct reconversion of a and ends with that of b, whatever the
\* loop computed for the two slots.
C1_HctEndpointsForced ==
    HctReturned =>
        /\ hct.n >= 2
        /\ hct.ret.val[1] = Reconvert(hct.a_hex)
        /\ hct.ret.val[Len(hct.ret.val)] = Reconvert(hct.b_hex)

\* a call with n = 2 whose first endpoint has a tone outside the clamp band,
\* so that the loop had computed another colour for slot 0
C1_Witness ==
    /\ HctReturned
    /\ hct.n = 2
    /\ hct.a_t # hct.t0
    /\ MixStepHex(hct, 0, cmax_cache) # Reconvert(hct.a_hex)
    /\ hct.ret.val[1] = Reconvert(hct.a_hex)

(***************************************************************************)
(* Properties of the three palette operations, checked under SpecPalettes. *)
(***************************************************************************)
\* the step count /mix is asked for: the argument n, or its default
RequestedN == IF args.n.kind = "absent" THEN N_DEFAULT ELSE PyInt(args.n.val)[2]

\* the colours step k (from 0) of the /mix loop can give
MixStepColours(k) ==
    {rgb01_to_hex(o.rgb) : o \in {x \in Interpolate(algo, rgb_a, rgb_b, k, n - 1) : x.ok}}

\* C7: a palette operation that succeeds returns exactly n colours, the
\* colour of step k in place k: /mix for n = max(3, min(n, 256)) of the n
\* asked for, HCTMix.mix for its n >= 2 (the two end slots holding the
\* endpoints), HCTTonal.ramp for its n >= 3.
C7_PaletteLength ==
    /\ (pc = "done" /\ resp[1].kind = "palette") =>
          /\ n = Max2(3, Min2(RequestedN, 256))
          /\ Len(resp[1].body) = n
          /\ \A k \in 1..n : resp[1].body[k] \in MixStepColours(k - 1)
    /\ HctReturned =>
          /\ hct.n >= 2
          /\ Len(hct.ret.val) = hct.n
          /\ \A k \in 2..(hct.n - 1) : hct.ret.val[k] = MixStepHex(hct, k - 1, cmax_cache)
    /\ (ramp.pc = "done" /\ ramp.ret.kind = "list") =>
          /\ ramp.n >= 3
          /\ Len(ramp.ret.val) = ramp.n
          /\ \A k \in 1..Len(ramp.ret.val) :
                ramp.ret.val[k] = RampHex(ramp.seed, ramp.tones[k])

\* a /mix request for 300 steps, answered with 256 colours
C7_Witness ==
    /\ pc = "done"
    /\ args.n = Str(<<"3", "0", "0">>)
    /\ resp[1].kind = "palette"
    /\ Len(resp[1].body) = N_MAX
    /\ resp[1].body[1] # resp[1].body[N_MAX]
(***************************************************************************)
(* The algorithm keys the dispatcher is documented to accept, checked      *)
(* under Spec.                                                             *)
(***************************************************************************)
\* the enumerated set of algorithm keys
EnumeratedKeys ==
    {"srgb", "linear", "oklab", "okhsv", "cam16ucs", "cam16jmh", "hct",
     "km_sub", "hct_tone", "mix_hct"}

\* the request being handled has a usable step count and two colours that
\* hex_to_rgb01 accepts
ValidColoursAndCount ==
    /\ pc # "idle"
    /\ (args.n.kind = "absent" \/ PyInt(args.n.val)[1])
    /\ hex_to_rgb01(<<"#">> \o LStripHash(ArgGet(args.a, DEFAULT_A))).ok
    /\ hex_to_rgb01(<<"#">> \o LStripHash(ArgGet(args.b, DEFAULT_B))).ok

\* C11: a request with valid colours whose key is one of the ten enumerated
\* keys is dispatched to a mixing function: it is in the palette loop or has
\* called the interpolator, and it is not answered 400 as an unknown
\* algorithm.
C11_EnumeratedKeysAccepted ==
    ( /\ ValidColoursAndCount
      /\ ArgGet(args.algo, DEFAULT_ALGO) \in EnumeratedKeys )
    => /\ resp # <<Error(400)>>
       /\ (pc = "loop" \/ calls # <<>>)

(***************************************************************************)
(* Rounding of a channel to 8 bits, checked under Spec.                    *)
(***************************************************************************)
\* the nearest integer of num/den >= 0, an exact half going up
RoundHalfAway(num, den) == FloorDiv(2 * num + den, 2 * den)

\* C12: every colour of the palette is, channel by channel, the clamped
\* channel times 255 rounded to the nearest integer with exact halves
\* rounded away from zero, so that k + 0.5 becomes k + 1.
C12_RoundHalfAwayFromZero ==
    palette # <<>> =>
        \A k \in 1..3 :
           LET c == Clip01(rgb[k])
           IN  palette[Len(palette)][k] = RoundHalfAway(c[1], c[2])

(***************************************************************************)
(* Properties of the OkHSV hue interpolation, checked under SpecOkhsv.     *)
(***************************************************************************)
\* the circular distance between two hues, in hue steps
HueDistance(h1, h2) ==
    LET far == IF h2 >= h1 THEN h2 - h1 ELSE h1 - h2
    IN  Min2(far, HUE_TURN - far)

RampSchedule == IF Falsy(ramp.schedule) THEN ramp.self_schedule ELSE ramp.schedule

\* C14: for every n >= 3, every schedule of the four and every gamma a tone
\* list is built, of n tones, whose first tone is exactly 100 and whose
\* last tone is exactly 0; the n - 2 tones between them are those of the
\* schedule and lie in [0, 100].
C14_ToneEndpoints ==
    /\ ( /\ ramp.pc # "idle"
         /\ ramp.n >= 3
         /\ RampSchedule \in Schedules
         /\ _canon_hex(ramp.seed_hex).ok ) => ramp.tones # <<>>
    /\ ramp.tones # <<>> =>
          /\ Len(ramp.tones) = ramp.n
          /\ ramp.tones[1] = 100 * TONE_UNITS
          /\ ramp.tones[ramp.n] = 0
          /\ \A j \in 2..(ramp.n - 1) :
                /\ ramp.tones[j] = _q(ToneRounded(ramp.used, j - 1, ramp.n - 1, ramp.gamma))
                /\ 0 <= ramp.tones[j] /\ ramp.tones[j] <= 100 * TONE_UNITS

\* a highlight ramp of five tones with gamma below the floor
C14_Witness ==
    /\ ramp.pc = "loop"
    /\ ramp.used = "highlight"
    /\ ramp.gamma < GAMMA_FLOOR
    /\ ramp.n = 5
    /\ ramp.tones = <<100 * TONE_UNITS, 749784, 499654, 249654, 0>>

\* the schedule name a ramp call was given: its own argument, or with None
\* the one the object was made with
GivenSchedule == IF ramp.schedule = None THEN ramp.self_schedule ELSE ramp.schedule

\* C15: a ramp call given a schedule name outside the four fails with a
\* ValueError and returns no colour, and no other schedule is used in its
\* place.
C15_UnknownScheduleFails ==
    (ramp.pc # "idle" /\ GivenSchedule \notin Schedules) =>
        /\ ramp.pc = "done"
        /\ ramp.ret = RaisedValueError
        /\ ramp.out = <<>>
        /\ ramp.used = None

(***************************************************************************)
(* Properties of the chroma bisection, checked under SpecBisect.           *)
(***************************************************************************)
\* C16: chroma 0 being in gamut, the chroma _cmax_cached returns is in
\* gamut; during the search lo is in gamut and never falls, the
\* out-of-gamut upper bound hi never grows; and with the same hue and tone
\* a budget of k + 1 iterations never returns less than one of k.
C16_BisectionInGamutAndMonotone ==
    in_gamut(bis.hq, 0, bis.tq) =>
        /\ \A k \in 1..Len(bis.trail) :
              /\ in_gamut(bis.hq, bis.trail[k][1], bis.tq)
              /\ bis.trail[k][1] <= bis.trail[k][2]
              /\ k > 1 => /\ bis.trail[k - 1][1] <= bis.trail[k][1]
                          /\ bis.trail[k][2] <= bis.trail[k - 1][2]
                          /\ ~in_gamut(bis.hq, bis.trail[k][2], bis.tq)
        /\ bis.ret.kind = "list" =>
              /\ in_gamut(bis.hq, bis.ret.val, bis.tq)
              /\ bis.ret.val = CmaxWithIters(bis.cmax_iters, bis.hq, bis.tq)
              /\ \A k \in 0..(bis.cmax_iters - 1) :
                    CmaxWithIters(k, bis.hq, bis.tq) <= CmaxWithIters(k + 1, bis.hq, bis.tq)

\* a search of eight iterations that raised lo and lowered hi and returned
\* a chroma between 0 and the upper bound
C16_Witness ==
    /\ bis.pc = "done"
    /\ bis.cmax_iters = 8
    /\ Len(bis.trail) = 9
    /\ bis.ret.val > 0
    /\ bis.ret.val < CH_HI
    /\ bis.hi < CH_HI
    /\ CmaxWithIters(2, bis.hq, bis.tq) < bis.ret.val
    /\ bis.ret.val = _cmax_cached(bis.hq, bis.tq)

(***************************************************************************)
(* Out-of-gamut colours of the Oklab and OkHSV mixers, checked under Spec. *)
(***************************************************************************)
\* a linear-light colour re-encoded with each channel first brought into
\* [0, 1]: below 0 gives 0, above 1 gives 1
ClipEncode(lrgb) ==
    [k \in 1..3 |-> linear_to_srgb(Max2(0, Min2(LIN_ONE, lrgb[k])), 1)[2]]

\* the linear-light colours the inverse Oklab matrix hands to the re-encoding
LrgbSamples(key) == IF key = "oklab" THEN OklabLrgbSamples ELSE OkhsvLrgbSamples

\* C17: a step of the oklab or okhsv mixer never raises, and the colour it
\* returns is the linear-light colour clipped per channel: a channel below 0
\* re-encoded as 0, a channel above 1 as 1.
C17_OutOfGamutClipped ==
    (pc # "idle" /\ algo \in {"oklab", "okhsv"}) =>
        /\ ~InterpolatorRaised
        /\ rgb # <<>> => rgb \in {ClipEncode(l) : l \in LrgbSamples(algo)}

(***************************************************************************)
(* The low-saturation freeze of the HCT mixer, checked under SpecHCT.      *)
(***************************************************************************)
\* C18: at every step whose interpolated saturation si is below s_freeze
\* the hue of the step is exactly endpoint A's hue when t < 0.5 and exactly
\* endpoint B's when t >= 0.5, and at every other step it is the short-arc
\* interpolated hue; that hue is the one of the step's last chroma-max
\* lookup and of the colour the step puts out.
C18_FreezeSnapsHue ==
    \A k \in 1..Len(hct.hi) :
       LET d     == hct.n - 1
           step  == k - 1
           below == 100 * (hct.sa * (d - step) + hct.sb * step) < 2 * SAT_ONE * d
           Ti    == Frac(hct.t0 * (d - step) + hct.t1 * step, d)
           hue   == hct.hi[k]
       IN  /\ (below /\ 2 * step < d) => hue = Frac(hct.a_h, 1)
           /\ (below /\ 2 * step >= d) => hue = Frac(hct.b_h, 1)
           /\ ~below => hue = _short_arc_lerp(hct.a_h, hct.b_h, step, d)
           /\ hct.looked_up[k] = CmaxKey(hue, Ti)
           /\ (hct.pc = "loop" /\ hct.out[k].col[2] # 0) =>
                 hct.out[k].col[1] = RoundHalfEven(hue[1], hue[2]) % HUE_FULL

\* four steps between two faint colours of different hue: the first three
\* are frozen, two on A's hue and one on B's, and the second puts out a
\* colour with chroma, of A's hue
C18_Witness ==
    /\ hct.pc = "loop"
    /\ hct.n = 4
    /\ Len(hct.hi) = 4
    /\ hct.a_h # hct.b_h
    /\ hct.sa = 0 /\ 100 * hct.sb = 2 * SAT_ONE
    /\ hct.hi[1] = Frac(hct.a_h, 1)
    /\ hct.hi[2] = Frac(hct.a_h, 1)
    /\ hct.hi[3] = Frac(hct.b_h, 1)
    /\ _short_arc_lerp(hct.a_h, hct.b_h, 1, 3) # hct.hi[2]
    /\ hct.looked_up[3][1] = hct.b_h
    /\ hct.out[2].col[2] # 0
    /\ hct.out[2].col[1] = hct.a_h

\* C19: the cache of maximum chroma only grows: an entry once stored is
\* never removed and never changed by the calls that follow.
C19_CacheAppendOnly == [][\A e \in cmax_cache : e \in cmax_cache']_vars


\* the colour of a step of the call of a frame when it runs alone in a
\* fresh process, every chroma found by a bisection of its own
MixAlone(m, step) ==
    LET keyA == CmaxKey(Frac(m.a_h, 1), Frac(m.t0, 1))
        keyB == CmaxKey(Frac(m.b_h, 1), Frac(m.t1, 1))
        own  == [m EXCEPT !.sa = SatEncode(m.a_c, _cmax_cached(keyA[1], keyA[2])),
                          !.sb = SatEncode(m.b_c, _cmax_cached(keyB[1], keyB[2]))]
    IN  MixStepHex(own, step, {})

\* C20: however the calls of the threads interleave, every call of _cmax
\* returns the chroma that a bisection for its key returns, every entry of
\* the cache holds that chroma, and every call computes every colour as it
\* does when it runs alone and returns the palette it returns then.
C20_InterleavingIndependent ==
    /\ \A e \in cmax_cache : e[2] = _cmax_cached(e[1][1], e[1][2])
    /\ \A t \in Threads :
          /\ thr[t].got.key # NoKey =>
                thr[t].got.val = _cmax_cached(thr[t].got.key[1], thr[t].got.key[2])
          /\ (thr[t].pc \in {"loop", "refetch"} /\ thr[t].fr.out # <<>>) =>
                LET last == Len(thr[t].fr.out)
                IN  thr[t].fr.out[last] = MixAlone(thr[t].fr, last - 1)
          /\ (thr[t].pc = "done" /\ thr[t].fr.ret.kind = "list") =>
                thr[t].fr.ret.val =
                    ForceEndpoints([k \in 1..thr[t].fr.n |-> MixAlone(thr[t].fr, k - 1)],
                                   thr[t].fr.a_hex, thr[t].fr.b_hex)

\* both threads run a bisection for one key at a time when thread 1 has
\* taken the value of the key before from the cache, in calls with an
\* interior step
C20_Witness ==
    /\ thr[1].key # NoKey
    /\ thr[1].key = thr[2].key
    /\ thr[1].got.how = "hit"
    /\ thr[1].pc \in {"loop", "refetch"}
    /\ thr[1].fr.n >= 3
    /\ thr[2].fr.n >= 3


\* C21: each transfer-curve table is built once: no table is built a second
\* time, no two requests build one table at the same time, and the table
\* that the requests use is never replaced after it is stored.
C21_TablesBuiltOnce ==
    \A T \in Tables :
        /\ lut_builds[T] <= 1
        /\ Cardinality({t \in LutThreads :
                           lut_req[t].pc = "build" /\ Head(lut_req[t].calls) = T}) <= 1
        /\ lut_cache[T] \in {0, 1}


\* C22: a chroma-max of zero divides nothing by zero: encode gives
\* saturation 0 whenever the chroma-max is not positive, and under a
\* chroma-max of 0 the decoded chroma is 0 whatever the saturation is.
C22_ZeroCmaxGivesZero ==
    /\ (sat.pc \in {"decode", "done"} /\ sat.c_env <= 0) => sat.enc = 0
    /\ (sat.pc = "done" /\ sat.c_env = 0) => sat.dec[1] = 0

\* at tone 100 the chroma-max is 0: a colour with chroma gets saturation 0
\* and the full saturation gets chroma 0
C22_Witness ==
    /\ sat.pc = "done"
    /\ sat.tq = TONE_MAX
    /\ sat.c_env = 0
    /\ sat.c > 0
    /\ sat.s = SAT_ONE
    /\ sat.enc = 0
    /\ sat.dec[1] = 0


\* the weight 1.0 in the units of the weights of the sweep
KmOne == km_d * km_d * RS * CMF_Y_SUM

\* the weights of A and of B at a step of the sweep
KmWeights(step) ==
    <<KmConcA(step, km_d, _luminance(_srgb_to_R(km_a))),
      KmConcB(step, km_d, _luminance(_srgb_to_R(km_b)))>>

\* C23: km_mix never divides by zero: the divisor of the K/S average is
\* 1.0 when the total weight concA + concB is zero and is concA + concB
\* itself otherwise, at every step of a sweep and for weights of zero.
C23_KmDivisorNeverZero ==
    /\ KmTotal(0, 0, KmOne) = KmOne
    /\ \A step \in 0..(Len(km_seq) - 1) :
          LET w     == KmWeights(step)
              total == KmTotal(w[1], w[2], KmOne)
          IN  /\ total # 0
              /\ w[1] + w[2] = 0 => total = KmOne
              /\ w[1] + w[2] # 0 => total = w[1] + w[2]

\* a finished sweep from a dark colour: at t = 0 the weight of B is zero
\* and the divisor is the weight of A alone, below 1.0
C23_Witness ==
    /\ km_pc = "done"
    /\ km_d >= 2
    /\ KmWeights(0)[2] = 0
    /\ KmWeights(0)[1] > 0
    /\ KmWeights(0)[1] < KmOne
    /\ KmTotal(KmWeights(0)[1], KmWeights(0)[2], KmOne) = KmWeights(0)[1]


\* the hue of a key, or a hue given as a fraction, lies in [0, 360)
HueInRange(h) == 0 <= h[1] /\ h[1] < HUE_FULL * h[2]

\* the keys of the calls of _cmax that mix has made so far
KeysSoFar ==
    {CmaxKey(Frac(hct.a_h, 1), Frac(hct.t0, 1)), CmaxKey(Frac(hct.b_h, 1), Frac(hct.t1, 1))}
        \cup UNION {{MixStepKeys(hct, k - 1)[j] : j \in 1..Len(MixStepKeys(hct, k - 1))}
                       : k \in 1..Len(hct.hi)}

\* C24: every hue the HCT mixer handles lies in [0, 360): the hues of the
\* endpoints, the hue of every step, and the quantized hue of every key
\* that is passed to the gamut search (here for endpoints that have a hue).
C24_HuesInRange ==
    (hct.pc \in {"loop", "done"} /\ hct.n >= 2 /\ hct.a_h # NaN /\ hct.b_h # NaN) =>
        /\ HueInRange(Frac(hct.a_h, 1))
        /\ HueInRange(Frac(hct.b_h, 1))
        /\ \A k \in 1..Len(hct.hi) : HueInRange(hct.hi[k])
        /\ \A key \in KeysSoFar : HueInRange(Frac(key[1], 1))


\* C25: in the loops of /mix and of HCTMix.mix the divisor n - 1 is at
\* least 1 whenever the body runs, and the body runs for i = 0, 1, ... in
\* this order, so that t = i / (n - 1) starts at 0, increases strictly,
\* stays in [0, 1] and is 1 at the last step; /mix has n >= 3, and
\* HCTMix.mix raises for n < 2 before it does anything else.
C25_StepParameters ==
    /\ pc = "loop" => (n >= N_MIN /\ n - 1 >= 1)
    /\ \A k \in 1..Len(calls) : calls[k] = k - 1 /\ calls[k] <= n - 1
    /\ (pc = "done" /\ resp[1].kind = "palette") => (Len(calls) = n /\ calls[n] = n - 1)
    /\ hct.pc = "loop" => (hct.n - 1 >= 1 /\ Len(hct.hi) = hct.i /\ hct.i <= hct.n)
    /\ \A k \in 1..Len(hct.hi) : hct.hi[k] = MixStepHue(hct, k - 1)
    /\ HctReturned => Len(hct.hi) = hct.n
    /\ (hct.pc # "idle" /\ hct.n < 2) =>
          (hct.pc = "done" /\ hct.ret = RaisedValueError /\ hct.hi = <<>> /\ hct.out = <<>>)

\* a /mix request for one colour, answered with the three colours of
\* t = 0, 1/2 and 1
C25_Witness ==
    /\ pc = "done"
    /\ args.n = Str(<<"1">>)
    /\ n = N_MIN
    /\ resp[1].kind = "palette"
    /\ calls = <<0, 1, 2>>
    /\ Len(resp[1].body) = N_MIN


\* C26: the tones of a ramp never rise from one slot to the next and lie
\* in [0, 100], from 100 in the first slot down to 0 in the last, for every
\* n >= 3, schedule and gamma.
C26_TonesNonIncreasing ==
    ramp.tones # <<>> =>
        /\ ramp.n >= 3
        /\ Len(ramp.tones) = ramp.n
        /\ ramp.tones[1] = 100 * TONE_UNITS
        /\ ramp.tones[ramp.n] = 0
        /\ \A k \in 1..ramp.n : 0 <= ramp.tones[k] /\ ramp.tones[k] <= 100 * TONE_UNITS
        /\ \A k \in 1..(ramp.n - 1) : ramp.tones[k] >= ramp.tones[k + 1]

\* a ramp of five tones on the highlight schedule with a gamma below the
\* floor: three interior tones, each darker than the one before
C26_Witness ==
    /\ ramp.pc = "done"
    /\ ramp.ret.kind = "list"
    /\ ramp.n = 5
    /\ ramp.used = "highlight"
    /\ ramp.gamma < GAMMA_FLOOR
    /\ \A k \in 1..4 : ramp.tones[k] > ramp.tones[k + 1]


\* half a turn in the units of a formula
ArcHalf(kind) == IF kind = "hct" THEN HUE_HALF ELSE HUE_HALF_TURN

\* the two hues are exactly half a turn apart
Antipodal == (arc.h2 - arc.h1) % (2 * ArcHalf(arc.kind)) = ArcHalf(arc.kind)

\* C27: between hues that are not half a turn apart the short-arc hue of
\* (h1, h2, t) is the hue of (h2, h1, 1 - t), for _short_arc_lerp and for
\* the OkHSV formula; between hues half a turn apart the signed travel is
\* minus half a turn in both call orders.
C27_ReversalSymmetric ==
    arc.pc # "idle" =>
        IF Antipodal
        THEN arc.travel = <<0 - ArcHalf(arc.kind), 0 - ArcHalf(arc.kind)>>
        ELSE /\ arc.travel[1] = 0 - arc.travel[2]
             /\ \A k \in 1..Len(arc.fwd) : arc.fwd[k] = arc.bwd[k]

\* a finished sweep across hue 0 between hues that are not opposite, with
\* a step strictly between the two hues
C27_Witness ==
    /\ arc.pc = "done"
    /\ arc.kind = "hct"
    /\ arc.h1 = HUE_FULL - 1
    /\ arc.h2 = 30 * HQ
    /\ arc.d = 3
    /\ arc.travel = <<30 * HQ + 1, 0 - (30 * HQ + 1)>>
    /\ arc.fwd = arc.bwd
    /\ arc.fwd[2] # arc.fwd[1]
    /\ arc.fwd[2][1] < arc.h2 * arc.d

=============================================================================
